---- MODULE Spec2Model ----
(***************************************************************************)
(* Model of the MODOB moderation bot: the anti-spam rate limiter and ban   *)
(* escalation engine (bot/anti_spam.py) and the message pipeline           *)
(* (bot/handlers/core.py).                                                 *)
(*                                                                         *)
(* Time is the integer number of seconds read from the clock; one handler  *)
(* invocation reads one clock value.  Texts are sequences of one-character *)
(* strings.  Python dicts are functions whose DOMAIN is the set of keys.   *)
(***************************************************************************)
EXTENDS Integers, Sequences, FiniteSets, TLC

VARIABLES
    now,              \* the clock (time.time(), whole seconds)
    group_settings,   \* table group_settings: chat -> row (exists = FALSE: no row)
    keywords,         \* table keywords: chat -> sequence of rules, in query order
    message_history,  \* anti_spam._message_history: key -> deque of timestamps
    link_history,     \* anti_spam._link_history: key -> deque of timestamps
    ban_cache,        \* anti_spam._ban_cache: key -> [value, expires]
    file_cache,       \* cache.file_cache: file id -> [value, expires]
    inflight,         \* the handle_message invocations suspended at an await
    user_data,        \* context.user_data of the administrator's private chat
    tmp_handlers,     \* the one-time reply handlers of add_keyword_command
    last,             \* what the last handler invocation did (observation)
    sent              \* per key: times of the messages that reached the rate
                      \* limiter since the key was last reset (observation)

vars == <<now, group_settings, keywords, message_history, link_history,
          ban_cache, file_cache, inflight, user_data, tmp_handlers, last,
          sent>>

(***************************************************************************)
(* Bounds of the model.                                                    *)
(***************************************************************************)
MaxTime == 120
MaxTimeEsc == 86460
MaxTimeBurst == 2
MaxSent == 22
MaxArrived == 4
\* rows of the keywords table, and one-time reply handlers registered at once
MaxKeywords == 2
MaxPending == 1
\* messages of one key within the interval, where the link history fills up
MaxSentLinks == 102

(***************************************************************************)
(* Program constants.                                                      *)
(***************************************************************************)
MESSAGE_HISTORY_MAXLEN == 20
LINK_HISTORY_MAXLEN == 100
BAN_CACHE_TTL == 60 * 60 * 24
FILE_ID_TTL == 60 * 60 * 12
BAN_DURATIONS == <<60, 300, 1800, 3600, 21600>>
SPAM_LIMIT == 5
SPAM_INTERVAL == 10
LINK_SPAM_LIMIT == 3
LINK_SPAM_ENABLED == TRUE

NoUser == 0
NoChat == 0
Chats == {1, 2}
Users == {1, 2}
Keys == {<<1, 1>>, <<1, 2>>, <<2, 1>>}

Min(a, b) == IF a < b THEN a ELSE b

(***************************************************************************)
(* dict operations.                                                        *)
(***************************************************************************)
DictPut(d, k, v) == [x \in (DOMAIN d) \cup {k} |-> IF x = k THEN v ELSE d[x]]
\* a pop that leaves the key in place
DictPopKeeps(d, k) == d
DictPop(d, k) == [x \in (DOMAIN d) \ {k} |-> d[x]]
DictGet(d, k, default) == IF k \in DOMAIN d THEN d[k] ELSE default
EmptyDict == [x \in {} |-> 0]

\* the sequences over S of at most n elements
SeqsUpTo(S, n) == UNION {[1..k -> S] : k \in 0..n}

(***************************************************************************)
(* collections.deque(maxlen = n): append drops the oldest entry when full. *)
(***************************************************************************)
\* a list that grows without bound
DequeAppendUnbounded(h, t, maxlen) == h \o <<t>>
DequeAppend(h, t, maxlen) ==
    IF Len(h) >= maxlen THEN Tail(h) \o <<t>> ELSE h \o <<t>>

\* while history and now - history[0] > interval: history.popleft()
RECURSIVE DropOld(_, _, _)
DropOld(h, t, interval) ==
    IF h # <<>> /\ t - Head(h) > interval
    THEN DropOld(Tail(h), t, interval)
    ELSE h

(***************************************************************************)
(* cachetools.TTLCache(maxsize = 1000, ttl = 24 h).  An item is present    *)
(* while the clock is before its expiry; a write first removes the expired *)
(* items and then stamps the written item with clock + ttl.  A write of a  *)
(* new key to a cache that holds maxsize items first removes the item that *)
(* was written longest ago (popitem takes the head of the expiry list, to  *)
(* whose end every write moves its key).                                   *)
(***************************************************************************)
BAN_CACHE_MAXSIZE == 1000
FILE_CACHE_MAXSIZE == 2048
\* a cache whose items never run out
CacheContainsStale(c, k, t) == k \in DOMAIN c
CacheContains(c, k, t) == k \in DOMAIN c /\ t < c[k].expires
CacheExpire(c, t) == [x \in {y \in DOMAIN c : t < c[y].expires} |-> c[x]]
\* next(iter(links)): the item written longest ago
CacheOldest(c) ==
    CHOOSE k \in DOMAIN c : \A x \in DOMAIN c : c[k].expires <= c[x].expires
\* while currsize + 1 > maxsize: popitem(), for a key the cache does not hold
CacheMakeRoom(c, k, maxsize) ==
    IF k \notin DOMAIN c /\ Cardinality(DOMAIN c) >= maxsize
    THEN DictPop(c, CacheOldest(c))
    ELSE c
TTLSet(c, k, v, t, ttl, maxsize) ==
    DictPut(CacheMakeRoom(CacheExpire(c, t), k, maxsize), k,
            [value |-> v, expires |-> t + ttl])
CacheSet(c, k, v, t) == TTLSet(c, k, v, t, BAN_CACHE_TTL, BAN_CACHE_MAXSIZE)
\* a pop that removes the record only while it is marked expired
CachePopExpiredOnly(c, k, t) ==
    IF CacheContains(c, k, t) /\ c[k].value.until = 0 THEN DictPop(c, k) ELSE c
CachePop(c, k, t) == IF CacheContains(c, k, t) THEN DictPop(c, k) ELSE c

\* a cache value: the tuple (ban_until, ban_count), or a bare ban_until
BanTuple(until, count) == [until |-> until, count |-> count, tuple |-> TRUE]
BanLegacy(until) == [until |-> until, count |-> 0, tuple |-> FALSE]

(***************************************************************************)
(* Characters.  str.lower() and the regex classes \S and \w, on the        *)
(* characters the model's texts are written with.                          *)
(***************************************************************************)
LowerOf ==
    [c \in {"A", "B", "H", "W", "T", "P", "M", "E", "S", "X"} |->
        CASE c = "A" -> "a" [] c = "B" -> "b" [] c = "H" -> "h"
          [] c = "W" -> "w" [] c = "T" -> "t" [] c = "P" -> "p"
          [] c = "M" -> "m" [] c = "E" -> "e" [] c = "S" -> "s"
          [] c = "X" -> "x"]
LowerChar(c) == IF c \in DOMAIN LowerOf THEN LowerOf[c] ELSE c
Lower(s) == [i \in 1..Len(s) |-> LowerChar(s[i])]

SpaceChars == {" ", "\t", "\n"}
WordChars ==
    {"a", "b", "c", "d", "e", "f", "g", "h", "i", "j", "k", "l", "m", "n",
     "o", "p", "q", "r", "s", "t", "u", "v", "w", "x", "y", "z",
     "0", "1", "2", "3", "4", "5", "6", "7", "8", "9", "_"}
    \cup DOMAIN LowerOf
IsNonSpace(c) == c \notin SpaceChars
IsWord(c) == c \in WordChars

\* the literal lit occurs in s at position i (1-based)
OccursAt(s, i, lit) ==
    /\ i >= 1
    /\ i + Len(lit) - 1 <= Len(s)
    /\ \A j \in 1..Len(lit) : s[i + j - 1] = lit[j]

\* Python's `sub in s`
Contains(s, sub) == \E i \in 1..(Len(s) - Len(sub) + 1) : OccursAt(s, i, sub)

\* Python's s.startswith(prefix)
StartsWith(s, prefix) == OccursAt(s, 1, prefix)

(***************************************************************************)
(* _url_pattern = https?://\S+|www\.\S+|t\.me/\S+|@\w+  (re.IGNORECASE),  *)
(* used with search(): a literal head followed by at least one character   *)
(* of the class, anywhere in the text.                                     *)
(***************************************************************************)
\* the literal head at position i, then a character that is not a space
HeadThenNonSpace(s, i, lit) ==
    /\ OccursAt(Lower(s), i, lit)
    /\ i + Len(lit) <= Len(s)
    /\ IsNonSpace(s[i + Len(lit)])

\* the literal head at position i, then a word character
HeadThenWord(s, i, lit) ==
    /\ OccursAt(Lower(s), i, lit)
    /\ i + Len(lit) <= Len(s)
    /\ IsWord(s[i + Len(lit)])

UrlPatternSearch(s) ==
    \E i \in 1..Len(s) :
        \/ HeadThenNonSpace(s, i, <<"h", "t", "t", "p", ":", "/", "/">>)
        \/ HeadThenNonSpace(s, i, <<"h", "t", "t", "p", "s", ":", "/", "/">>)
        \/ HeadThenNonSpace(s, i, <<"w", "w", "w", ".">>)
        \/ HeadThenNonSpace(s, i, <<"t", ".", "m", "e", "/">>)
        \/ HeadThenWord(s, i, <<"@">>)

(***************************************************************************)
(* The messaging platform.  A call is recorded with its outcome; `out`     *)
(* says which calls of the invocation fail:                                *)
(*   out.restrict    restrict_chat_member                                  *)
(*   out.member      get_chat_member for the offender's name               *)
(*   out.notice      send_message of the ban notice                        *)
(*   out.failnotice  send_message of the failure notice                    *)
(***************************************************************************)
Call(api, what, until_date, ok) ==
    [api |-> api, what |-> what, until_date |-> until_date, ok |-> ok]

Outcomes ==
    { [restrict |-> TRUE,  member |-> TRUE,  notice |-> TRUE,  failnotice |-> TRUE],
      [restrict |-> TRUE,  member |-> FALSE, notice |-> TRUE,  failnotice |-> TRUE],
      [restrict |-> TRUE,  member |-> TRUE,  notice |-> FALSE, failnotice |-> TRUE],
      [restrict |-> TRUE,  member |-> TRUE,  notice |-> FALSE, failnotice |-> FALSE],
      [restrict |-> FALSE, member |-> TRUE,  notice |-> TRUE,  failnotice |-> TRUE],
      [restrict |-> FALSE, member |-> TRUE,  notice |-> TRUE,  failnotice |-> FALSE] }

(***************************************************************************)
(* _ban_user: the ban escalation engine.                                   *)
(***************************************************************************)
\* a count that is read one too high
CurrentBanCountPlusOne(c, k, t) ==
    IF CacheContains(c, k, t) /\ c[k].value.tuple THEN c[k].value.count + 1 ELSE 1
\* current_ban_data[1] if isinstance(current_ban_data, tuple) else 0
CurrentBanCount(c, k, t) ==
    IF CacheContains(c, k, t) /\ c[k].value.tuple THEN c[k].value.count ELSE 0

\* the table indexed by the count instead of the count minus one
BanSecondsByCount(count) == BAN_DURATIONS[Min(count, Len(BAN_DURATIONS) - 1) + 1]
\* BAN_DURATIONS[min(current_ban_count - 1, len(BAN_DURATIONS) - 1)]
BanSeconds(count) == BAN_DURATIONS[Min(count - 1, Len(BAN_DURATIONS) - 1) + 1]

\* an enforcement that tries the restriction a second time when it fails
BanCallsRetrying(until_date, out) ==
    <<Call("restrict_chat_member", "mute", until_date, out.restrict)>>
    \o (IF out.restrict
        THEN <<Call("get_chat_member", "name", 0, out.member),
               Call("send_message", "ban_notice", 0, out.notice)>>
        ELSE <<Call("restrict_chat_member", "mute", until_date, out.restrict),
               Call("send_message", "failure_notice", 0, out.failnotice)>>)
\* the platform calls of one enforcement, in order
BanCalls(until_date, out) ==
    <<Call("restrict_chat_member", "mute", until_date, out.restrict)>>
    \o (IF out.restrict
        THEN <<Call("get_chat_member", "name", 0, out.member),
               Call("send_message", "ban_notice", 0, out.notice)>>
             \o (IF out.notice
                 THEN <<>>
                 ELSE <<Call("send_message", "failure_notice", 0, out.failnotice)>>)
        ELSE <<Call("send_message", "failure_notice", 0, out.failnotice)>>)

\* a ban that is recorded only once the restriction has been accepted
BanUserOnceRestricted(c, k, t, out) ==
    [cache |-> IF out.restrict
               THEN CacheSet(c, k, BanTuple(t + BanSeconds(CurrentBanCount(c, k, t) + 1),
                                            CurrentBanCount(c, k, t) + 1), t)
               ELSE c,
     calls |-> BanCalls(t + BanSeconds(CurrentBanCount(c, k, t) + 1), out)]
BanUser(c, k, t, out) ==
    LET count == CurrentBanCount(c, k, t) + 1
        until == t + BanSeconds(count)
    IN  [cache |-> CacheSet(c, k, BanTuple(until, count), t),
         calls |-> BanCalls(until, out)]

(***************************************************************************)
(* check_spam.  conf is the group's row, or a row with exists = FALSE when *)
(* the group has none (group_conf is None) and the defaults apply.         *)
(***************************************************************************)
ConfLimit(conf) == IF conf.exists THEN conf.spam_limit ELSE SPAM_LIMIT
ConfInterval(conf) == IF conf.exists THEN conf.spam_interval ELSE SPAM_INTERVAL
ConfLinkEnabled(conf) ==
    IF conf.exists THEN conf.link_spam_enabled ELSE LINK_SPAM_ENABLED
ConfLinkLimit(conf) ==
    IF conf.exists THEN conf.link_spam_limit ELSE LINK_SPAM_LIMIT

\* isinstance(chat_member, (ChatMemberAdministrator, ChatMemberOwner));
\* "error" is get_chat_member raising
Privileges == {"administrator", "owner", "member", "error"}
\* a lookup that fails exempts the user too
IsExemptOrUnknown(priv) == priv \in {"administrator", "owner", "error"}
IsExempt(priv) == priv \in {"administrator", "owner"}

\* the comparison with ban_until turned round
BanActiveAfterUntil(c, k, t) == CacheContains(c, k, t) /\ t > c[k].value.until
\* a ban that is still active at the second it ends
BanActiveThroughUntil(c, k, t) == CacheContains(c, k, t) /\ t <= c[k].value.until
\* now < ban_until, for a key present in the cache
BanActive(c, k, t) == CacheContains(c, k, t) /\ t < c[k].value.until

\* a message limit that is reached instead of exceeded
OverMessageLimitAtLimit(n, limit) == n >= limit
\* len(history) > limit
OverMessageLimit(n, limit) == n > limit
\* the link count compared like the message count
LinkLimitExceeded(n, limit) == n > limit
\* a link limit that lets every first link through
LinkLimitReachedBySecond(n, limit) == n >= limit /\ n > 1
\* len(link_history) >= link_spam_limit
LinkLimitReached(n, limit) == n >= limit

\* an expired record is deleted instead of being rewritten
AfterExpiryCheckDeletes(c, k, t) ==
    IF CacheContains(c, k, t) THEN DictPop(c, k) ELSE c
\* a bare ban_until is rewritten with the count _ban_user reads from it
AfterExpiryCheckLegacyFresh(c, k, t) ==
    IF CacheContains(c, k, t)
    THEN CacheSet(c, k, BanTuple(0, CurrentBanCount(c, k, t)), t)
    ELSE c
\* the ban cache after the active-ban check let the message through:
\* an expired record is rewritten as (0, ban_count)
AfterExpiryCheck(c, k, t) ==
    IF CacheContains(c, k, t)
    THEN CacheSet(c, k,
             BanTuple(0, IF c[k].value.tuple THEN c[k].value.count ELSE 1), t)
    ELSE c

\* the history is started afresh instead of being appended to
RecordMessageLost(h, k, t, interval) == <<t>>
\* a pruning that also drops the timestamps that are exactly interval old
RecordMessageWithinOpenInterval(h, k, t, interval) ==
    DropOld(DequeAppend(DictGet(h, k, <<>>), t, MESSAGE_HISTORY_MAXLEN), t, interval - 1)
RecordMessage(h, k, t, interval) ==
    DropOld(DequeAppend(DictGet(h, k, <<>>), t, MESSAGE_HISTORY_MAXLEN), t, interval)
RecordLink(h, k, t, interval) ==
    DropOld(DequeAppend(DictGet(h, k, <<>>), t, LINK_HISTORY_MAXLEN), t, interval)

Unchanged(path, blocked, calls) ==
    [blocked |-> blocked, path |-> path, recorded |-> FALSE,
     mh |-> message_history, lh |-> link_history, cache |-> ban_cache,
     calls |-> calls]

CheckSpam(chat, user, text, conf, priv, out) ==
    LET k == <<chat, user>>
        t == now
        lookup == <<Call("get_chat_member", "status", 0, priv # "error")>>
        c1 == AfterExpiryCheck(ban_cache, k, t)
        interval == ConfInterval(conf)
        mh1 == DictPut(message_history, k,
                       RecordMessage(message_history, k, t, interval))
        lh1 == DictPut(link_history, k,
                       RecordLink(link_history, k, t, interval))
        ban == BanUser(c1, k, t, out)
    IN  IF user = NoUser THEN Unchanged("no_user", FALSE, <<>>)
        ELSE IF IsExempt(priv) THEN Unchanged("exempt", FALSE, lookup)
        ELSE IF BanActive(ban_cache, k, t) THEN Unchanged("active_ban", TRUE, lookup)
        ELSE IF OverMessageLimit(Len(mh1[k]), ConfLimit(conf))
        THEN [blocked |-> TRUE, path |-> "message_limit", recorded |-> TRUE,
              mh |-> mh1, lh |-> link_history, cache |-> ban.cache,
              calls |-> lookup \o ban.calls]
        ELSE IF text # <<>> /\ ConfLinkEnabled(conf) /\ UrlPatternSearch(text)
        THEN IF LinkLimitReached(Len(lh1[k]), ConfLinkLimit(conf))
             THEN [blocked |-> TRUE, path |-> "link_limit", recorded |-> TRUE,
                   mh |-> mh1, lh |-> lh1, cache |-> ban.cache,
                   calls |-> lookup \o ban.calls]
             ELSE [blocked |-> FALSE, path |-> "pass", recorded |-> TRUE,
                   mh |-> mh1, lh |-> lh1, cache |-> c1, calls |-> lookup]
        ELSE [blocked |-> FALSE, path |-> "pass", recorded |-> TRUE,
              mh |-> mh1, lh |-> link_history, cache |-> c1, calls |-> lookup]


(***************************************************************************)
(* Transliteration.  A Cyrillic letter is written as one character named   *)
(* "ru_<name>" (upper case "RU_<name>").                                   *)
(***************************************************************************)
RU_LETTERS ==
    {"ru_a", "ru_b", "ru_v", "ru_g", "ru_d", "ru_e", "ru_yo", "ru_zh",
     "ru_z", "ru_i", "ru_j", "ru_k", "ru_l", "ru_m", "ru_n", "ru_o",
     "ru_p", "ru_r", "ru_s", "ru_t", "ru_u", "ru_f", "ru_h", "ru_ts",
     "ru_ch", "ru_sh", "ru_sch", "ru_hard", "ru_y", "ru_soft", "ru_eh",
     "ru_yu", "ru_ya"}

RU_TO_EN ==
    [c \in RU_LETTERS |->
        CASE c = "ru_a" -> <<"a">>
          [] c = "ru_b" -> <<"b">>
          [] c = "ru_v" -> <<"v">>
          [] c = "ru_g" -> <<"g">>
          [] c = "ru_d" -> <<"d">>
          [] c = "ru_e" -> <<"e">>
          [] c = "ru_yo" -> <<"y", "o">>
          [] c = "ru_zh" -> <<"z", "h">>
          [] c = "ru_z" -> <<"z">>
          [] c = "ru_i" -> <<"i">>
          [] c = "ru_j" -> <<"y">>
          [] c = "ru_k" -> <<"k">>
          [] c = "ru_l" -> <<"l">>
          [] c = "ru_m" -> <<"m">>
          [] c = "ru_n" -> <<"n">>
          [] c = "ru_o" -> <<"o">>
          [] c = "ru_p" -> <<"p">>
          [] c = "ru_r" -> <<"r">>
          [] c = "ru_s" -> <<"s">>
          [] c = "ru_t" -> <<"t">>
          [] c = "ru_u" -> <<"u">>
          [] c = "ru_f" -> <<"f">>
          [] c = "ru_h" -> <<"h">>
          [] c = "ru_ts" -> <<"t", "s">>
          [] c = "ru_ch" -> <<"c", "h">>
          [] c = "ru_sh" -> <<"s", "h">>
          [] c = "ru_sch" -> <<"s", "c", "h">>
          [] c = "ru_hard" -> <<>>
          [] c = "ru_y" -> <<"y">>
          [] c = "ru_soft" -> <<>>
          [] c = "ru_eh" -> <<"e">>
          [] c = "ru_yu" -> <<"y", "u">>
          [] c = "ru_ya" -> <<"y", "a">>]

\* the one-character keys of EN_TO_RU
EN_LETTERS ==
    {"a", "b", "c", "d", "e", "f", "g", "h", "i", "j", "k", "l", "m",
     "n", "o", "p", "q", "r", "s", "t", "u", "v", "w", "x", "y", "z"}

EN_TO_RU ==
    [c \in EN_LETTERS |->
        CASE c = "a" -> <<"ru_a">>
          [] c = "b" -> <<"ru_b">>
          [] c = "c" -> <<"ru_k">>
          [] c = "d" -> <<"ru_d">>
          [] c = "e" -> <<"ru_e">>
          [] c = "f" -> <<"ru_f">>
          [] c = "g" -> <<"ru_g">>
          [] c = "h" -> <<"ru_h">>
          [] c = "i" -> <<"ru_i">>
          [] c = "j" -> <<"ru_d", "ru_zh">>
          [] c = "k" -> <<"ru_k">>
          [] c = "l" -> <<"ru_l">>
          [] c = "m" -> <<"ru_m">>
          [] c = "n" -> <<"ru_n">>
          [] c = "o" -> <<"ru_o">>
          [] c = "p" -> <<"ru_p">>
          [] c = "q" -> <<"ru_k">>
          [] c = "r" -> <<"ru_r">>
          [] c = "s" -> <<"ru_s">>
          [] c = "t" -> <<"ru_t">>
          [] c = "u" -> <<"ru_u">>
          [] c = "v" -> <<"ru_v">>
          [] c = "w" -> <<"ru_v">>
          [] c = "x" -> <<"ru_k", "ru_s">>
          [] c = "y" -> <<"ru_j">>
          [] c = "z" -> <<"ru_z">>]

\* the keys of EN_TO_RU longer than one character, in the dict's order
EN_TO_RU_COMBOS ==
    << <<<<"c", "h">>, <<"ru_ch">>>>,
       <<<<"s", "h">>, <<"ru_sh">>>>,
       <<<<"s", "c", "h">>, <<"ru_sch">>>>,
       <<<<"z", "h">>, <<"ru_zh">>>>,
       <<<<"t", "s">>, <<"ru_ts">>>>,
       <<<<"y", "u">>, <<"ru_yu">>>>,
       <<<<"y", "a">>, <<"ru_ya">>>>,
       <<<<"y", "o">>, <<"ru_yo">>>> >>

\* "".join of the pieces lo..hi, by halves
RECURSIVE ConcatRange(_, _, _)
ConcatRange(ss, lo, hi) ==
    IF lo > hi THEN <<>>
    ELSE IF lo = hi THEN ss[lo]
    ELSE ConcatRange(ss, lo, (lo + hi) \div 2)
         \o ConcatRange(ss, (lo + hi) \div 2 + 1, hi)

Concat(ss) == ConcatRange(ss, 1, Len(ss))

transliterate_ru_to_en(text) ==
    Concat([i \in 1..Len(text) |->
        LET c == LowerChar(text[i])
        IN  IF c \in DOMAIN RU_TO_EN THEN RU_TO_EN[c] ELSE <<c>>])

\* str.replace(old, new): left to right, non-overlapping
RECURSIVE Replace(_, _, _)
Replace(s, old, new) ==
    IF s = <<>> THEN <<>>
    ELSE IF OccursAt(s, 1, old)
         THEN new \o Replace(SubSeq(s, Len(old) + 1, Len(s)), old, new)
         ELSE <<Head(s)>> \o Replace(Tail(s), old, new)

RECURSIVE ReplaceCombos(_, _)
ReplaceCombos(s, combos) ==
    IF combos = <<>> THEN s
    ELSE ReplaceCombos(Replace(s, Head(combos)[1], Head(combos)[2]), Tail(combos))

transliterate_en_to_ru(text) ==
    LET t == ReplaceCombos(text, EN_TO_RU_COMBOS)
    IN  Concat([i \in 1..Len(t) |->
            LET c == LowerChar(t[i])
            IN  IF c \in DOMAIN EN_TO_RU THEN EN_TO_RU[c] ELSE <<c>>])

(***************************************************************************)
(* fnmatch.fnmatch(text, pattern) on POSIX (normcase is the identity):     *)
(* the whole text matches; * is any run of characters, ? one character.    *)
(* The model's patterns hold no bracket expression.                        *)
(***************************************************************************)
RECURSIVE GlobFrom(_, _, _, _)
GlobFrom(t, i, p, j) ==
    IF j > Len(p) THEN i > Len(t)
    ELSE IF p[j] = "*"
         THEN \E k \in i..(Len(t) + 1) : GlobFrom(t, k, p, j + 1)
    ELSE IF p[j] = "?"
         THEN i <= Len(t) /\ GlobFrom(t, i + 1, p, j + 1)
    ELSE i <= Len(t) /\ t[i] = p[j] /\ GlobFrom(t, i + 1, p, j + 1)

Fnmatch(text, pattern) == GlobFrom(text, 1, pattern, 1)


(***************************************************************************)
(* difflib.SequenceMatcher(None, a, b).ratio() = 2 * M / (len(a) + len(b)) *)
(* where M sums the matching blocks: the longest common block (earliest in *)
(* a, then earliest in b), then recursively the blocks left and right of   *)
(* it.  Positions are 0-based and ranges half-open, as in difflib.  The    *)
(* model's second sequences are shorter than 200 elements, below which     *)
(* difflib treats no element as junk.                                      *)
(***************************************************************************)
RECURSIVE CommonLen(_, _, _, _, _, _)
CommonLen(a, i, ahi, b, j, bhi) ==
    IF i < ahi /\ j < bhi /\ a[i + 1] = b[j + 1]
    THEN 1 + CommonLen(a, i + 1, ahi, b, j + 1, bhi)
    ELSE 0

SetMax(S) == CHOOSE x \in S : \A y \in S : y <= x
SetMin(S) == CHOOSE x \in S : \A y \in S : x <= y

\* the length of the longest common block of a[alo:ahi] and b[blo:bhi]
LongestLen(a, alo, ahi, b, blo, bhi) ==
    IF alo >= ahi \/ blo >= bhi THEN 0
    ELSE SetMax({CommonLen(a, i, ahi, b, j, bhi) :
                    i \in alo..(ahi - 1), j \in blo..(bhi - 1)})

\* the block of length k that starts at i in a: the earliest in b
LongestMatchAt(a, alo, ahi, b, blo, bhi, k, i) ==
    <<i, SetMin({y \in blo..(bhi - 1) : CommonLen(a, i, ahi, b, y, bhi) = k}), k>>

\* the block of length k that starts earliest in a
LongestMatchOfLen(a, alo, ahi, b, blo, bhi, k) ==
    IF k = 0 THEN <<alo, blo, 0>>
    ELSE LongestMatchAt(a, alo, ahi, b, blo, bhi, k,
             SetMin({x \in alo..(ahi - 1) :
                        \E y \in blo..(bhi - 1) :
                            CommonLen(a, x, ahi, b, y, bhi) = k}))

\* find_longest_match(alo, ahi, blo, bhi) = <<i, j, k>>
FindLongestMatch(a, alo, ahi, b, blo, bhi) ==
    LongestMatchOfLen(a, alo, ahi, b, blo, bhi,
                      LongestLen(a, alo, ahi, b, blo, bhi))

RECURSIVE MatchedCount(_, _, _, _, _, _)
RECURSIVE MatchedAround(_, _, _, _, _, _, _)
\* the block m = <<i, j, k>> and the blocks left and right of it
MatchedAround(a, alo, ahi, b, blo, bhi, m) ==
    IF m[3] = 0 THEN 0
    ELSE m[3]
         + (IF alo < m[1] /\ blo < m[2]
            THEN MatchedCount(a, alo, m[1], b, blo, m[2]) ELSE 0)
         + (IF m[1] + m[3] < ahi /\ m[2] + m[3] < bhi
            THEN MatchedCount(a, m[1] + m[3], ahi, b, m[2] + m[3], bhi) ELSE 0)

MatchedCount(a, alo, ahi, b, blo, bhi) ==
    MatchedAround(a, alo, ahi, b, blo, bhi,
                  FindLongestMatch(a, alo, ahi, b, blo, bhi))

Matches(a, b) == MatchedCount(a, 0, Len(a), b, 0, Len(b))

\* a comparison that asks for more than the threshold
RatioAbove(a, b, num, den) ==
    IF Len(a) + Len(b) = 0 THEN num < den
    ELSE 2 * Matches(a, b) * den > num * (Len(a) + Len(b))
\* ratio() >= num / den, for a threshold written as a decimal literal
RatioAtLeast(a, b, num, den) ==
    IF Len(a) + Len(b) = 0 THEN num <= den
    ELSE 2 * Matches(a, b) * den >= num * (Len(a) + Len(b))

(***************************************************************************)
(* fuzzy_match for texts of at most 200 characters: every substring whose  *)
(* length is within int(0.8 p) .. int(1.2 p) + 1 is compared with the      *)
(* phrase.  The threshold is the rational num / den.                       *)
(***************************************************************************)
FuzzyShort(text, phrase, num, den) ==
    LET p_len == Len(phrase)
        t_len == Len(text)
        min_len == IF (p_len * 8) \div 10 < 1 THEN 1 ELSE (p_len * 8) \div 10
        max_len == (p_len * 12) \div 10 + 1
    IN  /\ t_len >= (p_len * 8) \div 10
        /\ \E l \in min_len..max_len :
              \E i \in 0..(t_len - l) :
                  RatioAtLeast(SubSeq(text, i + 1, i + l), phrase, num, den)


(***************************************************************************)
(* Words.  str.split() splits on runs of whitespace; " ".join(words).      *)
(***************************************************************************)
\* where the words of s begin, and where the word that begins at i ends
WordStarts(s) ==
    {i \in 1..Len(s) : s[i] \notin SpaceChars /\ (i = 1 \/ s[i - 1] \in SpaceChars)}
WordEnd(s, i) ==
    CHOOSE j \in i..Len(s) :
        /\ \A x \in i..j : s[x] \notin SpaceChars
        /\ (j = Len(s) \/ s[j + 1] \in SpaceChars)
\* the words that begin at starts, in their order
WordsAt(s, starts) ==
    [k \in 1..Cardinality(starts) |->
        SubSeq(s, CHOOSE x \in starts : Cardinality({y \in starts : y <= x}) = k,
                  WordEnd(s, CHOOSE x \in starts :
                                 Cardinality({y \in starts : y <= x}) = k))]
Split(s) == WordsAt(s, WordStarts(s))

RECURSIVE Join(_)
Join(words) ==
    IF words = <<>> THEN <<>>
    ELSE IF Len(words) = 1 THEN words[1]
    ELSE words[1] \o <<" ">> \o Join(Tail(words))

Abs(x) == IF x < 0 THEN 0 - x ELSE x
Max(a, b) == IF a > b THEN a ELSE b
\* text[i:i + n] for a 0-based i
Slice(s, i, n) == SubSeq(s, i + 1, Min(i + n, Len(s)))
\* range(start, stop, step) for step > 0
Range(start, stop, step) == {i \in start..(stop - 1) : (i - start) % step = 0}

(***************************************************************************)
(* optimized_pattern_match: match_with_pattern for texts longer than 500.  *)
(***************************************************************************)
MAX_WINDOW_SIZE == 200
PATTERN_LONG_TEXT == 500
FUZZY_LONG_TEXT == 200

CountOf(s, c) == Cardinality({i \in 1..Len(s) : s[i] = c})
HasChar(s, c) == \E i \in 1..Len(s) : s[i] = c
EndsWith(s, suffix) == OccursAt(s, Len(s) - Len(suffix) + 1, suffix)

\* regex.fullmatch(chunk) or regex.search(chunk) for the regex of
\* fnmatch.translate(pattern), which is anchored at the end only
GlobSearch(chunk, pattern) == \E i \in 1..(Len(chunk) + 1) : GlobFrom(chunk, i, pattern, 1)

\* a search for the pattern's own characters, asterisks included
OptimizedPatternMatchLiteral(text, pattern) == Contains(text, pattern)
optimized_pattern_match(text, pattern) ==
    LET star == HasChar(pattern, "*")
        qm == HasChar(pattern, "?")
        first == pattern # <<>> /\ pattern[1] = "*"
        final == pattern # <<>> /\ pattern[Len(pattern)] = "*"
        window_size == Min(Len(text), MAX_WINDOW_SIZE * 2)
        overlap == Min(200, window_size \div 2)
    IN  IF ~star /\ ~qm THEN Contains(text, pattern)
        ELSE IF first /\ final /\ CountOf(pattern, "*") = 2 /\ ~qm
             THEN Contains(text, SubSeq(pattern, 2, Len(pattern) - 1))
        ELSE IF first /\ ~final /\ CountOf(pattern, "*") = 1 /\ ~qm
             THEN EndsWith(text, Tail(pattern))
        ELSE IF final /\ ~first /\ CountOf(pattern, "*") = 1 /\ ~qm
             THEN StartsWith(text, SubSeq(pattern, 1, Len(pattern) - 1))
        ELSE \E i \in Range(0, Len(text), window_size - overlap) :
                 GlobSearch(Slice(text, i, window_size), pattern)

match_with_pattern(text, pattern) ==
    IF Len(text) > PATTERN_LONG_TEXT
    THEN optimized_pattern_match(text, pattern)
    ELSE Fnmatch(text, pattern)


(***************************************************************************)
(* sliding_window_match and optimized_fuzzy_match: fuzzy_match for texts   *)
(* longer than 200 characters.  A threshold is a pair <<num, den>>.  The   *)
(* result is "match", "nomatch" or "error" (range() raising ValueError for *)
(* a step of 0).                                                           *)
(***************************************************************************)
RatMax(x, y) == IF x[1] * y[2] >= y[1] * x[2] THEN x ELSE y
Ratio(a, b) == IF Len(a) + Len(b) = 0 THEN <<1, 1>>
               ELSE <<2 * Matches(a, b), Len(a) + Len(b)>>
RatGE(x, y) == x[1] * y[2] >= y[1] * x[2]
RatAdd(x, y) == <<x[1] * y[2] + y[1] * x[2], x[2] * y[2]>>
RECURSIVE RatSum(_)
RatSum(rs) == IF rs = <<>> THEN <<0, 1>> ELSE RatAdd(Head(rs), RatSum(Tail(rs)))

\* step 2: a phrase of one short word against the words of the text
ShortWordMatch(text, phrase) ==
    LET lp == Len(phrase)
        base == IF lp <= 4 THEN <<7, 10>> ELSE IF lp <= 6 THEN <<3, 4>> ELSE <<4, 5>>
        words == Split(Lower(text))
    IN  /\ ~HasChar(phrase, " ")
        /\ lp <= 10
        /\ \E n \in 1..Len(words) :
              LET word == words[n]
                  wt == IF Len(word) >= 8 /\ lp >= 8 /\ Abs(Len(word) - lp) <= 2
                        THEN <<17, 20>> ELSE base
              IN  /\ RatGE(Ratio(word, Lower(phrase)), wt)
                  /\ Abs(Len(word) - lp) <= 2

\* step 3: a phrase of several words against the runs of words of the text
WordSequenceMatch(text, phrase) ==
    LET tw == Split(Lower(text))
        pw == Split(Lower(phrase))
        n == Len(pw)
    IN  /\ n > 1
        /\ \/ \E i \in 0..(Len(tw) - n) : \A j \in 1..n : tw[i + j] = pw[j]
           \/ \E i \in 0..(Len(tw) - n) :
                 LET sims == [j \in 1..n |-> Ratio(tw[i + j], pw[j])]
                     high == Cardinality({j \in 1..n : RatGE(sims[j], <<9, 10>>)})
                     avgOk == RatGE(RatSum(sims), <<9 * n, 10>>)
                 IN  /\ \/ avgOk /\ 10 * high >= 7 * n
                        \/ n >= 3 /\ high >= n - 1
                     /\ RatGE(Ratio(Join(SubSeq(tw, i + 1, i + n)), Lower(phrase)),
                              IF n >= 4 THEN <<9, 10>> ELSE <<23, 25>>)

\* step 4: windows of about twice the phrase
ShortPhraseWindowMatch(text, phrase) ==
    LET window_size == Min(Len(phrase) * 2, 30)
    IN  /\ Len(phrase) <= 15 \/ ~HasChar(phrase, " ")
        /\ \E i \in 0..(Len(text) - window_size) :
              RatGE(Ratio(Lower(Slice(text, i, window_size)), Lower(phrase)), <<9, 10>>)

\* step 5: the threshold of the large windows
AdjustedThreshold(phrase, threshold) ==
    IF ~HasChar(phrase, " ")
    THEN (IF Len(phrase) < 7 THEN <<4, 5>>
          ELSE IF Len(phrase) < 10 THEN <<17, 20>>
          ELSE threshold)
    ELSE IF Len(Split(phrase)) >= 4 THEN RatMax(threshold, <<19, 20>>)
    ELSE RatMax(threshold, <<9, 10>>)

sliding_window_match(text, phrase, threshold) ==
    LET window_size == Min(200, Max(Len(text), Len(phrase) * 3))
        step == window_size - Len(phrase)
    IN  IF Contains(Lower(text), Lower(phrase)) THEN "match"
        ELSE IF ShortWordMatch(text, phrase) THEN "match"
        ELSE IF WordSequenceMatch(text, phrase) THEN "match"
        ELSE IF ShortPhraseWindowMatch(text, phrase) THEN "match"
        ELSE IF step = 0 THEN "error"
        ELSE IF step < 0 THEN "nomatch"
        ELSE IF \E i \in Range(0, Len(text), step) :
                    LET chunk == Slice(text, i, window_size)
                    IN  /\ Len(chunk) >= Len(phrase) \div 2
                        /\ RatGE(Ratio(Lower(chunk), Lower(phrase)),
                                 AdjustedThreshold(phrase, threshold))
             THEN "match"
        ELSE "nomatch"

\* ratio() >= threshold * 0.8: the float product 0.9 * 0.8 is just above
\* 0.72, so for the threshold 0.9 a ratio of exactly 0.72 does not pass
RatioPassesScaled(r, threshold) ==
    IF threshold = <<9, 10>>
    THEN r[1] * threshold[2] * 10 > threshold[1] * 8 * r[2]
    ELSE r[1] * threshold[2] * 10 >= threshold[1] * 8 * r[2]

optimized_fuzzy_match(text, phrase, threshold) ==
    LET p_len == Len(phrase)
        words == Split(text)
        n == Len(words)
        two(i) == Join(SubSeq(words, i, i + 1))
        three(i) == Join(SubSeq(words, i, i + 2))
    IN  IF \E i \in 1..n :
              \/ /\ p_len <= 2 * Len(words[i])
                 /\ Len(words[i]) <= 2 * p_len
                 /\ RatioPassesScaled(Ratio(words[i], phrase), threshold)
              \/ /\ i <= n - 1
                 /\ 7 * p_len <= 10 * Len(two(i))
                 /\ 2 * Len(two(i)) <= 3 * p_len
                 /\ RatGE(Ratio(two(i), phrase), threshold)
              \/ /\ i <= n - 2
                 /\ 8 * p_len <= 10 * Len(three(i))
                 /\ 10 * Len(three(i)) <= 13 * p_len
                 /\ RatGE(Ratio(three(i), phrase), threshold)
        THEN "match"
        ELSE sliding_window_match(text, phrase, threshold)

fuzzy_match(text, phrase, threshold) ==
    IF phrase = <<>> THEN "nomatch"
    ELSE IF Len(text) > FUZZY_LONG_TEXT
         THEN optimized_fuzzy_match(text, phrase, threshold)
    ELSE IF FuzzyShort(text, phrase, threshold[1], threshold[2]) THEN "match"
    ELSE "nomatch"


(***************************************************************************)
(* match_keyword.  A rule is a row of table keywords.  The result is       *)
(* [is_match, score, raised]; the score is in hundredths.                  *)
(***************************************************************************)
THRESHOLD == <<9, 10>>
DIRECT_WINDOW_TEXT == 1000
DIRECT_WINDOW_PHRASE == 10

sliding_window_match_direct(text, phrase, keyword) ==
    LET window_size == Min(Len(text), MAX_WINDOW_SIZE)
    IN  \E i \in 0..(Len(text) - window_size) :
            LET window == Slice(text, i, window_size)
            IN  IF keyword.transliterate_enabled
                THEN Contains(transliterate_ru_to_en(window), phrase)
                ELSE Contains(window, phrase)

MatchResult(is_match, score, raised) ==
    [is_match |-> is_match, score |-> score, raised |-> raised]

NoMatch == MatchResult(FALSE, 0, FALSE)

\* if fuzzy_match(...): return True, 1.0 -- or the exception it raised --
\* and otherwise what follows
FuzzyResult(f, otherwise) ==
    IF f = "error" THEN MatchResult(FALSE, 0, TRUE)
    ELSE IF f = "match" THEN MatchResult(TRUE, 100, FALSE)
    ELSE otherwise

\* match_keyword from its line 335 on: text and phrase are lowered unless
\* the rule is case sensitive
MatchNormalized(text, phrase, keyword) ==
    IF /\ Len(text) > DIRECT_WINDOW_TEXT
       /\ Len(phrase) < DIRECT_WINDOW_PHRASE
       /\ ~keyword.is_pattern
    THEN MatchResult(sliding_window_match_direct(text, phrase, keyword), 95, FALSE)
    ELSE IF Contains(text, phrase) THEN MatchResult(TRUE, 100, FALSE)
    ELSE IF keyword.is_pattern /\ match_with_pattern(text, phrase)
         THEN MatchResult(TRUE, 100, FALSE)
    ELSE IF keyword.transliterate_enabled
            /\ (\/ Contains(transliterate_ru_to_en(text), phrase)
                \/ Contains(transliterate_en_to_ru(text), phrase))
         THEN MatchResult(TRUE, 100, FALSE)
    ELSE IF ~keyword.fuzzy_enabled THEN NoMatch
    ELSE FuzzyResult(fuzzy_match(text, phrase, THRESHOLD),
           IF ~keyword.transliterate_enabled THEN NoMatch
           ELSE FuzzyResult(
                  fuzzy_match(transliterate_ru_to_en(text), phrase, THRESHOLD),
                  FuzzyResult(
                    fuzzy_match(transliterate_en_to_ru(text), phrase, THRESHOLD),
                    NoMatch)))

match_keyword(text0, keyword) ==
    MatchNormalized(
        IF keyword.case_sensitive THEN text0 ELSE Lower(text0),
        IF keyword.case_sensitive THEN keyword.phrase ELSE Lower(keyword.phrase),
        keyword)

(***************************************************************************)
(* The primary pass of handle_message over the group's rules: the index   *)
(* of the rule to answer with (0: none), or raised when match_keyword      *)
(* raises.                                                                 *)
(***************************************************************************)
RECURSIVE ScanRules(_, _, _, _, _)
RECURSIVE ScanStep(_, _, _, _, _, _)
\* one turn of the loop: m is match_keyword's result for rule i
ScanStep(text, rules, i, best, best_score, m) ==
    IF m.raised THEN [best |-> 0, raised |-> TRUE]
    ELSE IF m.is_match /\ m.score > best_score
         THEN (IF m.score >= 100
               THEN [best |-> i, raised |-> FALSE]
               ELSE ScanRules(text, rules, i + 1, i, m.score))
    ELSE ScanRules(text, rules, i + 1, best, best_score)

ScanRules(text, rules, i, best, best_score) ==
    IF i > Len(rules) THEN [best |-> best, raised |-> FALSE]
    ELSE ScanStep(text, rules, i, best, best_score,
                  match_keyword(text, rules[i]))

\* a scan whose best_match starts as the first rule instead of None
PrimaryPassFromFirst(text, rules) ==
    ScanRules(text, rules, 1, IF Len(rules) > 0 THEN 1 ELSE 0, 0)
PrimaryPass(text, rules) == ScanRules(text, rules, 1, 0, 0)

(***************************************************************************)
(* process_long_message_with_timeout: the first rule whose phrase is       *)
(* contained in the text, or in one of its overlapping chunks (0: none).   *)
(***************************************************************************)
FALLBACK_SHORT_PHRASE == 15

FallbackMatches(text, keyword) ==
    LET check_text == IF keyword.case_sensitive THEN text ELSE Lower(text)
        check_phrase == IF keyword.case_sensitive THEN keyword.phrase
                        ELSE Lower(keyword.phrase)
        step == MAX_WINDOW_SIZE - Len(keyword.phrase)
    IN  \/ Contains(check_text, check_phrase)
        \/ /\ Len(keyword.phrase) < FALLBACK_SHORT_PHRASE
           /\ \E i \in Range(0, Len(check_text), step) :
                 Contains(Slice(check_text, i, MAX_WINDOW_SIZE), check_phrase)

FallbackPass(text, rules) ==
    IF \E i \in 1..Len(rules) : FallbackMatches(text, rules[i])
    THEN SetMin({i \in 1..Len(rules) : FallbackMatches(text, rules[i])})
    ELSE 0

(***************************************************************************)
(* _respond.  A rule with a response text reads kw.mention_tag, which the  *)
(* Keyword model does not define (AttributeError), so only a media rule is *)
(* answered.  delivered: the reply request reached the platform; ok: the   *)
(* call returned normally.                                                 *)
(***************************************************************************)
MediaTypes == {"photo", "video", "document"}

RespondRaises(kw) == kw.response_text # <<>>
RespondSends(kw) ==
    /\ kw.response_text = <<>>
    /\ kw.response_file_id # ""
    /\ kw.response_file_type # ""
    /\ kw.response_file_type \in MediaTypes
RespondCaches(kw) ==
    /\ kw.response_text = <<>>
    /\ kw.response_file_id # ""
    /\ kw.response_file_type # ""

Reply(rule, kw, pass, ok) ==
    [rule |-> rule, kind |-> kw.response_file_type, pass |-> pass, ok |-> ok]


(***************************************************************************)
(* handle_message.  An update is [chat, user, has_message, text, caption]; *)
(* the inputs of one invocation are the update, the privilege lookup's     *)
(* answer, the platform outcomes of an enforcement, where the 2-second     *)
(* budget of the primary pass runs out, and whether the reply call         *)
(* succeeds.                                                               *)
(*   budget = "in_time"            the primary pass finishes in time       *)
(*            "before_scan"        it runs out while the rules are queried *)
(*            "after_scan_unsent"  it ran out during the scan (which never *)
(*                                 yields); the cancellation lands on the  *)
(*                                 next await before the reply went out    *)
(*            "after_scan_sent"    the same, after the reply went out      *)
(***************************************************************************)
Budgets == {"in_time", "before_scan", "after_scan_unsent", "after_scan_sent"}

NoSpam == [blocked |-> FALSE, path |-> "none", recorded |-> FALSE,
           mh |-> message_history, lh |-> link_history, cache |-> ban_cache,
           calls |-> <<>>]

\* the replies and the cache writes of the keyword stage, and whether the
\* handler ends with an exception
StageOf(rules, budget, reply_ok, prim, fb) ==
    LET timed_out == budget # "in_time"
        pkw == rules[prim.best]
        psends == budget # "before_scan" /\ ~prim.raised /\ prim.best > 0
                  /\ RespondSends(pkw)
        pfails == budget # "before_scan"
                  /\ (prim.raised \/ (prim.best > 0 /\ RespondRaises(pkw)))
        preplies ==
            IF ~psends \/ budget = "after_scan_unsent" THEN <<>>
            ELSE <<Reply(prim.best, pkw, "primary",
                         IF budget = "in_time" THEN reply_ok ELSE FALSE)>>
        \* file_cache is written after the reply call returned or failed
        pcache ==
            IF budget # "before_scan" /\ ~prim.raised /\ prim.best > 0
               /\ RespondCaches(pkw) /\ (budget = "in_time" \/ ~psends)
            THEN {pkw} ELSE {}
        fkw == rules[fb]
        freplies == IF fb > 0 /\ RespondSends(fkw)
                    THEN <<Reply(fb, fkw, "fallback", reply_ok)>> ELSE <<>>
        fcache == IF fb > 0 /\ RespondCaches(fkw) THEN {fkw} ELSE {}
    IN  [replies |-> preplies \o freplies,
         cached |-> pcache \cup fcache,
         raised |-> pfails /\ ~timed_out,
         fallback |-> timed_out,
         budget |-> budget,
         \* the loop over the rules has no await: once entered it runs to
         \* its end, its break or its exception
         scanned |-> budget # "before_scan"]

\* prim: the primary pass; fb: the fallback pass, run when the budget ran out
KeywordStage(text, rules, budget, reply_ok) ==
    StageOf(rules, budget, reply_ok,
            PrimaryPass(text, rules),
            IF budget # "in_time" THEN FallbackPass(text, rules) ELSE 0)

RECURSIVE CacheFiles(_, _, _)
CacheFiles(c, kws, t) ==
    IF kws = {} THEN c
    ELSE LET kw == CHOOSE x \in kws : TRUE
         IN  CacheFiles(TTLSet(c, kw.response_file_id, kw.response_file_type,
                               t, FILE_ID_TTL, FILE_CACHE_MAXSIZE),
                        kws \ {kw}, t)

Observation(upd, priv, path, spam, kwstage) ==
    [op |-> "handle_message", chat |-> upd.chat, user |-> upd.user,
     text |-> IF upd.text # <<>> THEN upd.text ELSE upd.caption,
     priv |-> priv, path |-> path, spam |-> spam.path,
     blocked |-> spam.blocked, recorded |-> spam.recorded,
     has_link |-> upd.text # <<>> /\ UrlPatternSearch(upd.text),
     calls |-> spam.calls, replies |-> kwstage.replies,
     raised |-> kwstage.raised, fallback |-> kwstage.fallback,
     budget |-> kwstage.budget, scanned |-> kwstage.scanned]

NoKeywordStage ==
    [replies |-> <<>>, cached |-> {}, raised |-> FALSE, fallback |-> FALSE,
     budget |-> "none", scanned |-> FALSE]

\* the times of the key's messages that reached the rate limiter
NoteSent(upd, spam, interval) ==
    IF spam.recorded
    THEN DictPut(sent, <<upd.chat, upd.user>>,
                 DropOld(DictGet(sent, <<upd.chat, upd.user>>, <<>>) \o <<now>>,
                         now, interval))
    ELSE sent

\* a handler that takes no text for a command
IsCommandTextNever(text) == FALSE
\* if update.message.text and update.message.text.startswith("/"): return
IsCommandText(text) == text # <<>> /\ StartsWith(text, <<"/">>)

\* the handler goes on whatever check_spam returned
StopsNever(spam) == FALSE
\* if await check_spam(update, context, grp): return
StopsAtSpam(spam) == spam.blocked

\* handle_message, given what check_spam and the keyword stage yield
Handle(upd, priv, interval, text, spam, stage) ==
    IF upd.chat = NoChat \/ ~upd.has_message
    THEN /\ last' = Observation(upd, priv, "ignored", NoSpam, NoKeywordStage)
         /\ UNCHANGED <<now, group_settings, keywords, message_history,
                        link_history, ban_cache, file_cache, sent>>
    ELSE IF IsCommandText(upd.text)
    THEN /\ last' = Observation(upd, priv, "command", NoSpam, NoKeywordStage)
         /\ UNCHANGED <<now, group_settings, keywords, message_history,
                        link_history, ban_cache, file_cache, sent>>
    ELSE /\ message_history' = spam.mh
         /\ link_history' = spam.lh
         /\ ban_cache' = spam.cache
         /\ sent' = NoteSent(upd, spam, interval)
         /\ UNCHANGED <<now, group_settings, keywords>>
         /\ IF StopsAtSpam(spam)
            THEN /\ last' = Observation(upd, priv, "blocked", spam, NoKeywordStage)
                 /\ UNCHANGED file_cache
            ELSE IF text = <<>>
            THEN /\ last' = Observation(upd, priv, "no_text", spam, NoKeywordStage)
                 /\ UNCHANGED file_cache
            ELSE /\ last' = Observation(upd, priv, "resolved", spam, stage)
                 /\ file_cache' = CacheFiles(file_cache, stage.cached, now)

HandleMessage(upd, priv, out, budget, reply_ok) ==
    Handle(upd, priv, ConfInterval(group_settings[upd.chat]),
           IF upd.text # <<>> THEN upd.text ELSE upd.caption,
           CheckSpam(upd.chat, upd.user, upd.text, group_settings[upd.chat],
                     priv, out),
           KeywordStage(IF upd.text # <<>> THEN upd.text ELSE upd.caption,
                        keywords[upd.chat], budget, reply_ok))

(***************************************************************************)
(* unblock_user.  restore_ok: the platform call that restores the default  *)
(* permissions succeeds.                                                   *)
(***************************************************************************)
\* the three pops of unblock_user
UnblockState(cache, mh, lh, k, t) ==
    [cache |-> CachePop(cache, k, t), mh |-> DictPop(mh, k), lh |-> DictPop(lh, k)]

\* an unblock_user without the except clause
UnblockRaisesUncaught(restore_ok) == ~restore_ok
\* the call raises: `except Exception` catches what restrict_chat_member raises
UnblockRaises(restore_ok) == FALSE

UnblockUser(chat, user, restore_ok) ==
    LET k == <<chat, user>>
        after == UnblockState(ban_cache, message_history, link_history, k, now)
    IN  /\ ban_cache' = after.cache
        /\ message_history' = after.mh
        /\ link_history' = after.lh
        /\ sent' = DictPop(sent, k)
        /\ last' = [op |-> "unblock_user", chat |-> chat, user |-> user,
                    priv |-> "member", path |-> "unblock", spam |-> "none",
                    blocked |-> FALSE, recorded |-> FALSE, has_link |-> FALSE,
                    calls |-> <<Call("restrict_chat_member", "restore", 0, restore_ok)>>,
                    replies |-> <<>>, raised |-> UnblockRaises(restore_ok),
                    fallback |-> FALSE,
                    had_ban_entry |-> CacheContains(ban_cache, k, now)]
        /\ UNCHANGED <<now, group_settings, keywords, file_cache, inflight,
                       user_data, tmp_handlers>>

(***************************************************************************)
(* get_banned_users.  chat = NoChat stands for chat_id = None.  Iterating  *)
(* a TTLCache yields the items that have not reached their expiry.         *)
(***************************************************************************)
BannedUser(c, k) ==
    [user_id |-> k[2], chat_id |-> k[1], ban_until |-> c[k].value.until,
     ban_count |-> IF c[k].value.tuple THEN c[k].value.count ELSE 1]

\* a listing that does not look at ban_until
BannedUsersUnfiltered(c, t, chat) ==
    {BannedUser(c, k) : k \in {x \in DOMAIN c : CacheContains(c, x, t)}}
\* the dicts appended to banned_users (the list's order is the cache's)
BannedUsers(c, t, chat) ==
    {BannedUser(c, k) :
        k \in {x \in DOMAIN c :
                  /\ CacheContains(c, x, t)
                  /\ c[x].value.until > t
                  /\ (chat = NoChat \/ x[1] = chat)}}

GetBannedUsers(chat) ==
    /\ last' = [op |-> "get_banned_users", chat |-> chat, user |-> NoUser,
                priv |-> "member", path |-> "query", spam |-> "none",
                blocked |-> FALSE, recorded |-> FALSE, has_link |-> FALSE,
                calls |-> <<>>, replies |-> <<>>, raised |-> FALSE,
                fallback |-> FALSE,
                listed |-> BannedUsers(ban_cache, now, chat)]
    /\ UNCHANGED <<now, group_settings, keywords, message_history, link_history,
                   ban_cache, file_cache, inflight, user_data, tmp_handlers,
                   sent>>

(***************************************************************************)
(* The clock.                                                              *)
(***************************************************************************)
Tick(d, max) ==
    /\ now + d <= max
    /\ now' = now + d
    /\ UNCHANGED <<group_settings, keywords, message_history, link_history,
                   ban_cache, file_cache, inflight, user_data, tmp_handlers,
                   last, sent>>


(***************************************************************************)
(* Rows, rules, updates and texts of the model.                            *)
(***************************************************************************)
Row(limit, interval, link_limit, link_enabled) ==
    [exists |-> TRUE, spam_limit |-> limit, spam_interval |-> interval,
     link_spam_limit |-> link_limit, link_spam_enabled |-> link_enabled]
\* the chat has no row: check_spam gets group_conf = None
NoRow ==
    [exists |-> FALSE, spam_limit |-> SPAM_LIMIT, spam_interval |-> SPAM_INTERVAL,
     link_spam_limit |-> LINK_SPAM_LIMIT, link_spam_enabled |-> LINK_SPAM_ENABLED]

Rule(phrase, response_text, file_id, file_type) ==
    [phrase |-> phrase, is_pattern |-> FALSE, case_sensitive |-> FALSE,
     transliterate_enabled |-> FALSE, fuzzy_enabled |-> FALSE,
     response_text |-> response_text, response_file_id |-> file_id,
     response_file_type |-> file_type]

Upd(chat, user, has_message, text, caption) ==
    [chat |-> chat, user |-> user, has_message |-> has_message,
     text |-> text, caption |-> caption]

TextPlain == <<"h", "i">>
TextLink == <<"@", "h", "i">>
\* a text that starts with "/" and is no bot command for the platform
TextCommand == <<"/", " ", "h", "i">>
TextOther == <<"y", "o">>

\* the invocations suspended at get_chat_member (lookup) and at the platform
\* calls of an enforcement (enforcing), and how many have arrived
InFlight(lookup, enforcing, arrived) ==
    [lookup |-> lookup, enforcing |-> enforcing, arrived |-> arrived]

\* the states of the add-keyword conversation; the library's END is -1
AWAITING_KEYWORD_PHRASE == 1
AWAITING_NEW_RESPONSE == 2
CONVERSATION_END == -1

\* what the bot keeps for the user of the private chat: a user_data that
\* holds none of the keys the keyword handlers use, and, next to it, the
\* state add_keyword_conversation has stored for the user (the value its
\* last handler returned)
NoKeywordId == <<NoChat, 0>>
NoUserData ==
    [selected_chat_id |-> NoChat, new_keyword_phrase |-> <<>>,
     editing_keyword_id |-> NoKeywordId, editing_keyword_phrase |-> <<>>,
     conversation |-> CONVERSATION_END]

AllOk == [restrict |-> TRUE, member |-> TRUE, notice |-> TRUE, failnotice |-> TRUE]

InitialObservation ==
    [op |-> "none", chat |-> NoChat, user |-> NoUser, priv |-> "member",
     path |-> "none", spam |-> "none", blocked |-> FALSE, recorded |-> FALSE,
     has_link |-> FALSE, calls |-> <<>>, replies |-> <<>>, raised |-> FALSE,
     fallback |-> FALSE]

InitCommon ==
    /\ now = 0
    /\ message_history = EmptyDict
    /\ link_history = EmptyDict
    /\ ban_cache = EmptyDict
    /\ file_cache = EmptyDict
    /\ sent = EmptyDict
    /\ inflight = InFlight(0, 0, 0)
    /\ user_data = NoUserData
    /\ tmp_handlers = {}
    /\ last = InitialObservation

\* one uninterrupted invocation of handle_message for an update, with the privilege
\* lookup's answer drawn from privs, the enforcement's outcomes from outs and
\* the budget's end from budgets; the inputs that the invocation does not
\* read are fixed
\* the choices an update leaves open: the Telegram calls of a ban can fail
\* only when check_spam bans, time can run out only once a text is scanned
Resolves(upd, reaches, spam) ==
    reaches /\ ~spam.blocked /\ (upd.text # <<>> \/ upd.caption # <<>>)

DeliverChecked(upd, priv, outs, budgets, reaches, spam) ==
    /\ reaches => Len(DictGet(sent, <<upd.chat, upd.user>>, <<>>)) < MaxSent
    /\ \E out \in (IF reaches /\ spam.path \in {"message_limit", "link_limit"}
                   THEN outs ELSE {AllOk}) :
       \E budget \in (IF Resolves(upd, reaches, spam)
                      THEN budgets ELSE {"in_time"}) :
       \E reply_ok \in (IF Resolves(upd, reaches, spam) /\ keywords[upd.chat] # <<>>
                        THEN BOOLEAN ELSE {TRUE}) :
           /\ HandleMessage(upd, priv, out, budget, reply_ok)
           /\ UNCHANGED <<inflight, user_data, tmp_handlers>>

Deliver(upd, privs, outs, budgets) ==
    \E priv \in privs :
        DeliverChecked(upd, priv, outs, budgets,
                       /\ upd.chat # NoChat
                       /\ upd.has_message
                       /\ ~IsCommandText(upd.text),
                       CheckSpam(upd.chat, upd.user, upd.text,
                                 group_settings[upd.chat], priv, AllOk))

(***************************************************************************)
(* Spec: the rate limiter.  One user of group 1, whose row is one of       *)
(* several small settings (links counted or not); the privilege lookup and *)
(* the platform calls of an enforcement may fail; a clock that advances by *)
(* the interval; manual unblocking.                                        *)
(***************************************************************************)
TimeSteps == {60}

Updates ==
    {Upd(1, 1, TRUE, TextPlain, <<>>),
     Upd(1, 1, TRUE, TextLink, <<>>),
     Upd(1, 1, TRUE, TextCommand, <<>>),
     Upd(1, 1, FALSE, TextPlain, <<>>),       \* an edited message
     Upd(1, NoUser, TRUE, TextPlain, <<>>)}   \* a message without a sender

Rows == {Row(1, 60, 2, TRUE), Row(2, 60, 2, TRUE), Row(2, 60, 1, FALSE)}

Init ==
    /\ InitCommon
    /\ \E row \in Rows : group_settings = (1 :> row) @@ (2 :> NoRow)
    /\ keywords = (1 :> <<>>) @@ (2 :> <<>>)

Next ==
    \/ \E upd \in Updates : Deliver(upd, Privileges, Outcomes, {"in_time"})
    \/ \E restore_ok \in BOOLEAN : UnblockUser(1, 1, restore_ok)
    \/ \E d \in TimeSteps : Tick(d, MaxTime)

Spec == Init /\ [][Next]_vars

(***************************************************************************)
(* SpecEscalate: one key with limit 1 and no rules; the clock advances to  *)
(* the end of the key's ban, long enough for the escalation to saturate,   *)
(* or to the end of the record's 24 hours.                                 *)
(***************************************************************************)
WaitBanOver(chat, user) ==
    /\ BanActive(ban_cache, <<chat, user>>, now)
    /\ Tick(ban_cache[<<chat, user>>].value.until - now, MaxTimeEsc)

\* nothing touches the record until its 24 hours are over
WaitRecordGone(chat, user) ==
    /\ CacheContains(ban_cache, <<chat, user>>, now)
    /\ Tick(ban_cache[<<chat, user>>].expires - now, MaxTimeEsc)

InitEscalate ==
    /\ InitCommon
    /\ group_settings = (1 :> Row(1, 60, 2, TRUE)) @@ (2 :> NoRow)
    /\ keywords = (1 :> <<>>) @@ (2 :> <<>>)

NextEscalate ==
    \/ Deliver(Upd(1, 1, TRUE, TextPlain, <<>>), {"member", "owner"}, {AllOk},
               {"in_time"})
    \/ UnblockUser(1, 1, TRUE)
    \/ WaitBanOver(1, 1)
    \/ WaitRecordGone(1, 1)

SpecEscalate == InitEscalate /\ [][NextEscalate]_vars

(***************************************************************************)
(* SpecBurst: one key sending a burst, under the default settings (no row) *)
(* or under a limit of 20; the clock advances by seconds.                  *)
(***************************************************************************)
InitBurst ==
    /\ InitCommon
    /\ \E row \in {NoRow, Row(20, 30, 3, TRUE)} :
          group_settings = (1 :> row) @@ (2 :> NoRow)
    /\ keywords = (1 :> <<>>) @@ (2 :> <<>>)

NextBurst ==
    \/ Deliver(Upd(1, 1, TRUE, TextPlain, <<>>), {"member"}, {AllOk}, {"in_time"})
    \/ Tick(1, MaxTimeBurst)

SpecBurst == InitBurst /\ [][NextBurst]_vars

(***************************************************************************)
(* SpecConcurrent: concurrent_updates(True) runs every update's handler as *)
(* a task of one event loop, so invocations interleave at their awaits and *)
(* nowhere else.  check_spam awaits get_chat_member (line 53); from there  *)
(* to the write of the ban record in _ban_user (line 148) it does not      *)
(* await; the platform calls of an enforcement follow (lines 154-197).     *)
(* One key sends messages that are handled concurrently.                   *)
(***************************************************************************)
ConcurrentUpdate == Upd(1, 1, TRUE, TextPlain, <<>>)

\* an update arrives: its handler runs to the await of get_chat_member
Arrive ==
    /\ inflight.arrived < MaxArrived
    /\ inflight' = InFlight(inflight.lookup + 1, inflight.enforcing,
                            inflight.arrived + 1)
    /\ UNCHANGED <<now, group_settings, keywords, message_history, link_history,
                   ban_cache, file_cache, user_data, tmp_handlers, last, sent>>

\* the invocation is suspended again only when it enforces a ban
ResumeChecked(upd, priv, out, spam) ==
    /\ HandleMessage(upd, priv, out, "in_time", TRUE)
    /\ inflight' = InFlight(inflight.lookup - 1,
                            inflight.enforcing
                              + (IF spam.path \in {"message_limit", "link_limit"}
                                 THEN 1 ELSE 0),
                            inflight.arrived)
    /\ UNCHANGED <<user_data, tmp_handlers>>

\* get_chat_member returns to one of the suspended invocations, which runs
\* without an await up to the platform calls of an enforcement, or to its end
Resume(upd, privs) ==
    /\ inflight.lookup > 0
    /\ \E priv \in privs :
          ResumeChecked(upd, priv, AllOk,
                        CheckSpam(upd.chat, upd.user, upd.text,
                                  group_settings[upd.chat], priv, AllOk))

\* the platform calls of an enforcement return
Complete ==
    /\ inflight.enforcing > 0
    /\ inflight' = InFlight(inflight.lookup, inflight.enforcing - 1,
                            inflight.arrived)
    /\ UNCHANGED <<now, group_settings, keywords, message_history, link_history,
                   ban_cache, file_cache, user_data, tmp_handlers, last, sent>>

InitConcurrent ==
    /\ InitCommon
    /\ \E row \in {Row(1, 60, 2, TRUE), Row(2, 60, 2, TRUE)} :
          group_settings = (1 :> row) @@ (2 :> NoRow)
    /\ keywords = (1 :> <<>>) @@ (2 :> <<>>)

NextConcurrent ==
    \/ Arrive
    \/ Resume(ConcurrentUpdate, {"member", "administrator", "error"})
    \/ Complete
    \/ Tick(1, MaxTimeBurst)

SpecConcurrent == InitConcurrent /\ [][NextConcurrent]_vars

(***************************************************************************)
(* SpecList: the list of active bans.  One user in each of two groups,     *)
(* both with limit 1; bans start, run out and are followed by later        *)
(* messages, and the list is asked for one group, the other, or all.       *)
(***************************************************************************)
ListUpdates == {Upd(1, 1, TRUE, TextPlain, <<>>), Upd(2, 1, TRUE, TextPlain, <<>>)}

InitList ==
    /\ InitCommon
    /\ group_settings = (1 :> Row(1, 30, 2, FALSE)) @@ (2 :> Row(1, 30, 2, FALSE))
    /\ keywords = (1 :> <<>>) @@ (2 :> <<>>)

NextList ==
    \/ \E upd \in ListUpdates : Deliver(upd, {"member"}, {AllOk}, {"in_time"})
    \/ \E chat \in {NoChat, 1, 2} : GetBannedUsers(chat)
    \/ \E d \in TimeSteps : Tick(d, MaxTime)

SpecList == InitList /\ [][NextList]_vars

(***************************************************************************)
(* SpecResolve: the matching engine as a function.  The group's rules are  *)
(* one of five rules (a literal one, a literal one of ten characters, a    *)
(* fuzzy one, a glob pattern, a transliterating one), alone or next to the *)
(* literal one; the texts are short ones and one of 1001 characters.       *)
(* Resolve applies the scan loop of handle_message to a text, Match        *)
(* applies match_keyword to a text and one rule; a behaviour is one        *)
(* application.                                                            *)
(***************************************************************************)
PhraseTen == <<"a", "b", "c", "d", "e", "f", "g", "h", "i", "j">>

RuleHi == Rule(<<"h", "i">>, <<>>, "f1", "photo")
RuleTen == Rule(PhraseTen, <<>>, "f2", "photo")
RuleFuzzy == [Rule(PhraseTen, <<>>, "f3", "photo") EXCEPT !.fuzzy_enabled = TRUE]
RulePattern == [Rule(<<"h", "*">>, <<>>, "f4", "photo") EXCEPT !.is_pattern = TRUE]
RuleTranslit ==
    [Rule(<<"ru_p", "ru_r">>, <<>>, "f5", "photo")
        EXCEPT !.transliterate_enabled = TRUE]

ResolveRules == {RuleHi, RuleTen, RuleFuzzy, RulePattern, RuleTranslit}
RuleLists ==
    {<<r>> : r \in ResolveRules}
    \cup {<<RuleHi, r>> : r \in ResolveRules}
    \cup {<<r, RuleHi>> : r \in ResolveRules}

\* a text of 1001 characters that begins with head
LongOf(head) ==
    [i \in 1..(DIRECT_WINDOW_TEXT + 1) |-> IF i <= Len(head) THEN head[i] ELSE "x"]

TextTypo == <<"a", "b", "c", "d", "e", "f", "g", "h", "i", "x">>
TextPr == <<"p", "r">>
TextCyr == <<"ru_p", "ru_r">>
LongText == LongOf(<<"h", "i", " ", "ru_p", "ru_r", " ">> \o PhraseTen \o <<" ">>)

ResolveTexts == {TextPlain, TextTypo, TextPr, TextCyr, LongText}

ResolveObservation(op, text, rule, best, matched, score, raised) ==
    [op |-> op, text |-> text, rule |-> rule, best |-> best,
     matched |-> matched, score |-> score, raised |-> raised]

\* the scan loop of handle_message over the group's rules
Resolved(text, scan) ==
    /\ last' = ResolveObservation("resolve", text, 0, scan.best, scan.best > 0,
                                  0, scan.raised)
    /\ UNCHANGED <<now, group_settings, keywords, message_history, link_history,
                   ban_cache, file_cache, inflight, user_data, tmp_handlers,
                   sent>>

Resolve(text) ==
    /\ last.op = "none"
    /\ Resolved(text, PrimaryPass(text, keywords[1]))

\* match_keyword for the text and the group's i-th rule
Matched(text, i, m) ==
    /\ last' = ResolveObservation("match_keyword", text, i, 0, m.is_match,
                                  m.score, m.raised)
    /\ UNCHANGED <<now, group_settings, keywords, message_history, link_history,
                   ban_cache, file_cache, inflight, user_data, tmp_handlers,
                   sent>>

Match(text, i) ==
    /\ last.op = "none"
    /\ i \in 1..Len(keywords[1])
    /\ Matched(text, i, match_keyword(text, keywords[1][i]))

InitResolve ==
    /\ InitCommon
    /\ group_settings = (1 :> NoRow) @@ (2 :> NoRow)
    /\ \E rules \in RuleLists : keywords = (1 :> rules) @@ (2 :> <<>>)

NextResolve ==
    \/ \E text \in ResolveTexts : Resolve(text)
    \/ \E text \in ResolveTexts : \E i \in 1..2 : Match(text, i)

SpecResolve == InitResolve /\ [][NextResolve]_vars

(***************************************************************************)
(* SpecPipeline: the message pipeline.  One member of group 1 with limit 1 *)
(* and keyword rules; the 2-second budget may run out at any point and the *)
(* reply call may fail.                                                    *)
(***************************************************************************)
ModelRules ==
    <<Rule(<<"h", "i">>, <<>>, "f1", "photo"),
      Rule(<<"y">>, <<"o", "k">>, "", "")>>

PipelineUpdates ==
    {Upd(1, 1, TRUE, t, <<>>) : t \in {TextPlain, TextOther, TextCommand}}

InitPipeline ==
    /\ InitCommon
    /\ group_settings = (1 :> Row(1, 60, 2, TRUE)) @@ (2 :> NoRow)
    /\ keywords = (1 :> ModelRules) @@ (2 :> <<>>)

NextPipeline ==
    \/ \E upd \in PipelineUpdates : Deliver(upd, {"member"}, {AllOk}, Budgets)
    \/ \E d \in TimeSteps : Tick(d, MaxTime)

SpecPipeline == InitPipeline /\ [][NextPipeline]_vars

(***************************************************************************)
(* SpecScan: match_keyword applied once to a text and a rule whose phrase  *)
(* is two characters long, or as long as the 200-character window of      *)
(* sliding_window_match, or longer, up to the 255 characters of the        *)
(* column, with every combination of the four mode flags.                  *)
(***************************************************************************)
SCAN_WINDOW == 200
PHRASE_MAX == 255

Repeated(c, n) == [i \in 1..n |-> c]

ScanPhrases ==
    {<<"a", "b">>}
      \cup {Repeated("a", n) :
               n \in {SCAN_WINDOW, SCAN_WINDOW + 1, PHRASE_MAX}}

WindowRules ==
    {[Rule(phrase, <<>>, "f1", "photo")
         EXCEPT !.case_sensitive = cs, !.is_pattern = pat,
                !.transliterate_enabled = tr, !.fuzzy_enabled = fz] :
        phrase \in ScanPhrases, cs \in BOOLEAN, pat \in BOOLEAN,
        tr \in BOOLEAN, fz \in BOOLEAN}

\* 201 characters in words of one letter, and a short text in lower and
\* in upper case
ScanTexts ==
    {[i \in 1..(FUZZY_LONG_TEXT + 1) |-> IF i % 2 = 0 THEN " " ELSE "b"],
     <<"x", "a", "b">>,
     <<"x", "A", "B">>}

InitScan ==
    /\ InitCommon
    /\ group_settings = (1 :> NoRow) @@ (2 :> NoRow)
    /\ \E rule \in WindowRules : keywords = (1 :> <<rule>>) @@ (2 :> <<>>)

\* the long text is given to the rules that do not transliterate
NextScan ==
    \E text \in ScanTexts :
        /\ Len(text) > FUZZY_LONG_TEXT => ~keywords[1][1].transliterate_enabled
        /\ Match(text, 1)

SpecScan == InitScan /\ [][NextScan]_vars

(***************************************************************************)
(* SpecLinks: link posting.  One user of group 1, whose row counts links   *)
(* with a link limit of 1, 2 or 3; the user sends texts with and without a *)
(* link and a photo whose caption holds one; the privilege lookup may      *)
(* report an owner or fail; the clock advances by half the interval, and   *)
(* the user may be unblocked by hand.                                      *)
(***************************************************************************)
LinkUpdates ==
    {Upd(1, 1, TRUE, TextLink, <<>>), Upd(1, 1, TRUE, TextPlain, <<>>),
     Upd(1, 1, TRUE, <<>>, TextLink)}

InitLinks ==
    /\ InitCommon
    /\ \E row \in {Row(3, 60, 1, TRUE), Row(3, 60, 2, TRUE), Row(2, 60, 3, TRUE)} :
          group_settings = (1 :> row) @@ (2 :> NoRow)
    /\ keywords = (1 :> <<>>) @@ (2 :> <<>>)

NextLinks ==
    \/ \E upd \in LinkUpdates :
          Deliver(upd, {"member", "owner", "error"}, {AllOk}, {"in_time"})
    \/ UnblockUser(1, 1, TRUE)
    \/ Tick(30, MaxTime)

SpecLinks == InitLinks /\ [][NextLinks]_vars

(***************************************************************************)
(* SpecDispatch: the pipeline over rule sets that match or do not.  Group  *)
(* 1, under the default settings, has no rule, one rule (a literal one, a  *)
(* glob pattern, a transliterating one) or two; a member sends texts that  *)
(* some of the rules match and others do not, one of which holds the       *)
(* pattern's characters without being matched by it; the budget may run    *)
(* out at any point and the reply call may fail.                           *)
(***************************************************************************)
TextStar == <<"a", "h", "*">>

DispatchRules ==
    {<<>>, <<RuleHi>>, <<RulePattern>>, <<RuleTranslit>>, <<RuleTen, RulePattern>>}

InitDispatch ==
    /\ InitCommon
    /\ group_settings = (1 :> NoRow) @@ (2 :> NoRow)
    /\ \E rules \in DispatchRules : keywords = (1 :> rules) @@ (2 :> <<>>)

NextDispatch ==
    \/ \E text \in {TextPlain, TextOther, TextStar} :
          Deliver(Upd(1, 1, TRUE, text, <<>>), {"member"}, {AllOk}, Budgets)
    \/ \E d \in TimeSteps : Tick(d, MaxTime)

SpecDispatch == InitDispatch /\ [][NextDispatch]_vars

(***************************************************************************)
(* SpecFrame: many keys.  The users 3 .. maxsize + 1 of group 1 hold ban   *)
(* records written in successive seconds of the last quarter of an hour:   *)
(* user 3, whose record is the oldest, is serving a ban of level 5, the    *)
(* others have served a first ban.  Users 1 and 2 hold nothing yet and    *)
(* send links under a link limit of 1, user 3 sends plain messages, and    *)
(* user 1 is unblocked by hand.                                            *)
(***************************************************************************)
FrameHolders == {<<1, u>> : u \in 3..(BAN_CACHE_MAXSIZE + 1)}

FrameRecord(k) ==
    IF k = <<1, 3>>
    THEN [value |-> BanTuple(BAN_DURATIONS[5] - BAN_CACHE_MAXSIZE, 5),
          expires |-> BAN_CACHE_TTL - BAN_CACHE_MAXSIZE]
    ELSE [value |-> BanTuple(0, 1),
          expires |-> BAN_CACHE_TTL - BAN_CACHE_MAXSIZE + k[2]]

InitFrame ==
    /\ now = 0
    /\ message_history = EmptyDict
    /\ link_history = EmptyDict
    /\ ban_cache = [k \in FrameHolders |-> FrameRecord(k)]
    /\ file_cache = EmptyDict
    /\ sent = EmptyDict
    /\ inflight = InFlight(0, 0, 0)
    /\ user_data = NoUserData
    /\ tmp_handlers = {}
    /\ last = InitialObservation
    /\ group_settings = (1 :> Row(1, 60, 1, TRUE)) @@ (2 :> NoRow)
    /\ keywords = (1 :> <<>>) @@ (2 :> <<>>)

NextFrame ==
    \/ \E upd \in {Upd(1, 1, TRUE, TextLink, <<>>), Upd(1, 2, TRUE, TextLink, <<>>),
                    Upd(1, 3, TRUE, TextPlain, <<>>)} :
          Deliver(upd, {"member"}, {AllOk}, {"in_time"})
    \/ UnblockUser(1, 1, TRUE)
    \/ \E d \in TimeSteps : Tick(d, MaxTime)

SpecFrame == InitFrame /\ [][NextFrame]_vars

(***************************************************************************)
(* SpecLegacy: ban records in the old format.  No code of the module       *)
(* writes a bare ban_until, so the records are put into the cache at time  *)
(* 0, one for each of two keys, with a ban that runs for 60 seconds.  Key  *)
(* (1, 1) sends messages, with and without links, under limits of 1; key   *)
(* (2, 1) is unblocked by hand; the list of bans is asked for; the clock   *)
(* advances to the end of a ban or of a record's 24 hours.                 *)
(***************************************************************************)
LegacyRecord(until) == [value |-> BanLegacy(until), expires |-> BAN_CACHE_TTL]

InitLegacy ==
    /\ now = 0
    /\ message_history = EmptyDict
    /\ link_history = EmptyDict
    /\ ban_cache = (<<1, 1>> :> LegacyRecord(60)) @@ (<<2, 1>> :> LegacyRecord(60))
    /\ file_cache = EmptyDict
    /\ sent = EmptyDict
    /\ inflight = InFlight(0, 0, 0)
    /\ user_data = NoUserData
    /\ tmp_handlers = {}
    /\ last = InitialObservation
    /\ \E row \in {Row(1, 60, 1, TRUE), Row(2, 60, 2, TRUE)} :
          group_settings = (1 :> row) @@ (2 :> NoRow)
    /\ keywords = (1 :> <<>>) @@ (2 :> <<>>)

NextLegacy ==
    \/ \E upd \in {Upd(1, 1, TRUE, TextPlain, <<>>), Upd(1, 1, TRUE, TextLink, <<>>)} :
          Deliver(upd, {"member"}, {AllOk}, {"in_time"})
    \/ \E chat \in {NoChat, 1, 2} : GetBannedUsers(chat)
    \/ \E restore_ok \in BOOLEAN : UnblockUser(2, 1, restore_ok)
    \/ Tick(30, MaxTime)
    \/ WaitBanOver(1, 1)
    \/ WaitRecordGone(1, 1)

SpecLegacy == InitLegacy /\ [][NextLegacy]_vars

(***************************************************************************)
(* SpecTranslit: the resolver on one rule with transliterate_enabled and a *)
(* text that is the other spelling of the rule's phrase: the rule's phrase *)
(* is a Cyrillic word and the text its transliteration by RU_TO_EN, or the *)
(* phrase is that transliteration and the text the Cyrillic word.          *)
(***************************************************************************)
Privet == <<"ru_p", "ru_r", "ru_i", "ru_v", "ru_e", "ru_t">>
CyrillicWords ==
    (SeqsUpTo({"ru_p", "ru_r", "ru_i", "ru_v", "ru_e", "ru_t", "ru_sch",
               "ru_soft", "ru_y", "ru_sh"}, 2) \ {<<>>})
      \cup {Privet}

TranslitRule(phrase) ==
    [Rule(phrase, <<>>, "f1", "photo") EXCEPT !.transliterate_enabled = TRUE]

\* the text in the other spelling of the rule's phrase, for the word
OtherSpelling(word, phrase) ==
    IF phrase = word THEN transliterate_ru_to_en(word) ELSE word

ResolveOtherSpelling(word) ==
    /\ keywords[1][1].phrase \in {word, transliterate_ru_to_en(word)}
    /\ OtherSpelling(word, keywords[1][1].phrase) # <<>>
    /\ Resolve(OtherSpelling(word, keywords[1][1].phrase))

InitTranslit ==
    /\ InitCommon
    /\ group_settings = (1 :> NoRow) @@ (2 :> NoRow)
    /\ \E word \in CyrillicWords :
          \E phrase \in {word, transliterate_ru_to_en(word)} \ {<<>>} :
              keywords = (1 :> <<TranslitRule(phrase)>>) @@ (2 :> <<>>)

NextTranslit == \E word \in CyrillicWords : ResolveOtherSpelling(word)

SpecTranslit == InitTranslit /\ [][NextTranslit]_vars

(***************************************************************************)
(* SpecPattern: match_with_pattern applied once to a text and a glob       *)
(* pattern: every text of up to four characters over {f, o, x}, and texts  *)
(* of 501 characters that hold "foo" at their start, inside, across the    *)
(* boundary of two windows, at their end, or not at all.                   *)
(***************************************************************************)
Foo == <<"f", "o", "o">>
\* 501 characters "x" with the word written at position at (0: nowhere)
LongWith(word, at) ==
    [i \in 1..(PATTERN_LONG_TEXT + 1) |->
        IF at > 0 /\ i >= at /\ i < at + Len(word) THEN word[i - at + 1] ELSE "x"]

PatternTexts ==
    SeqsUpTo({"f", "o", "x"}, 4)
      \cup {LongWith(Foo, at) : at \in {0, 1, 250, 399, 499}}
      \cup {LongWith(<<"f", "o">>, 250)}

Patterns ==
    {<<"*">> \o Foo \o <<"*">>, Foo, Foo \o <<"*">>, <<"*">> \o Foo,
     <<"f", "?", "o">>, <<"*", "f", "*", "o", "*">>, <<"x", "*", "o">>,
     <<"?", "*">>}

PatternObservation(text, pattern, result) ==
    [op |-> "match_with_pattern", text |-> text, pattern |-> pattern,
     result |-> result]

PatternMatch(text, pattern) ==
    /\ last.op = "none"
    /\ last' = PatternObservation(text, pattern, match_with_pattern(text, pattern))
    /\ UNCHANGED <<now, group_settings, keywords, message_history, link_history,
                   ban_cache, file_cache, inflight, user_data, tmp_handlers,
                   sent>>

InitPattern ==
    /\ InitCommon
    /\ group_settings = (1 :> NoRow) @@ (2 :> NoRow)
    /\ keywords = (1 :> <<>>) @@ (2 :> <<>>)

NextPattern ==
    \E text \in PatternTexts : \E pattern \in Patterns : PatternMatch(text, pattern)

SpecPattern == InitPattern /\ [][NextPattern]_vars

(***************************************************************************)
(* SpecFuzzy: fuzzy_match applied once to a text, a phrase and a           *)
(* threshold: phrases of up to three characters, a phrase of twelve, and   *)
(* phrases longer than the 200 characters from which the long-text path is *)
(* taken, each matched against itself and against a few other texts.       *)
(***************************************************************************)
PhraseTwelve == <<"a", "b", "c", "d", "e", "f", " ", "g", "h", "i", "j", "k">>
\* 201 characters in words of two letters, of one kind and of two kinds
LongPhraseWords == [i \in 1..(FUZZY_LONG_TEXT + 1) |-> IF i % 3 = 0 THEN " " ELSE "a"]
LongPhraseMixed ==
    [i \in 1..(FUZZY_LONG_TEXT + 1) |->
        IF i % 3 = 0 THEN " " ELSE IF i % 2 = 0 THEN "a" ELSE "B"]

FuzzyPhrases ==
    SeqsUpTo({"a", "b", " "}, 3) \cup {PhraseTwelve, LongPhraseWords, LongPhraseMixed}
FuzzyTexts == {<<"a", "b">>, <<"a", "x", "b", "a">>}
Thresholds == {<<1, 2>>, <<9, 10>>, <<1, 1>>}

FuzzyObservation(text, phrase, threshold, result) ==
    [op |-> "fuzzy_match", text |-> text, phrase |-> phrase,
     threshold |-> threshold, result |-> result]

FuzzyMatch(text, phrase, threshold) ==
    /\ last.op = "none"
    /\ last' = FuzzyObservation(text, phrase, threshold,
                                fuzzy_match(text, phrase, threshold))
    /\ UNCHANGED <<now, group_settings, keywords, message_history, link_history,
                   ban_cache, file_cache, inflight, user_data, tmp_handlers,
                   sent>>

InitFuzzy ==
    /\ InitCommon
    /\ group_settings = (1 :> NoRow) @@ (2 :> NoRow)
    /\ keywords = (1 :> <<>>) @@ (2 :> <<>>)

NextFuzzy ==
    \E phrase \in FuzzyPhrases : \E threshold \in Thresholds :
        \E text \in {phrase} \cup FuzzyTexts : FuzzyMatch(text, phrase, threshold)

SpecFuzzy == InitFuzzy /\ [][NextFuzzy]_vars

(***************************************************************************)
(* SpecHistory: one key sending messages with a link, second after second, *)
(* in a group whose limits lie above the capacities of the two histories;  *)
(* links are counted or not.                                               *)
(***************************************************************************)
HistoryUpdate == Upd(1, 1, TRUE, TextLink, <<>>)

DeliverLong(upd) ==
    /\ Len(DictGet(sent, <<upd.chat, upd.user>>, <<>>)) < MaxSentLinks
    /\ HandleMessage(upd, "member", AllOk, "in_time", TRUE)
    /\ UNCHANGED <<inflight, user_data, tmp_handlers>>

InitHistory ==
    /\ InitCommon
    /\ \E row \in {Row(200, 1, 101, TRUE), Row(200, 1, 101, FALSE)} :
          group_settings = (1 :> row) @@ (2 :> NoRow)
    /\ keywords = (1 :> <<>>) @@ (2 :> <<>>)

NextHistory ==
    \/ DeliverLong(HistoryUpdate)
    \/ Tick(1, MaxTimeBurst)

SpecHistory == InitHistory /\ [][NextHistory]_vars

(***************************************************************************)
(* SpecKeywords: the handlers that write the keywords table.  The add      *)
(* conversation of the private chat (start_add_keyword, get_keyword_phrase,*)
(* get_keyword_response), the /addkeyword command with its one-time reply  *)
(* handler (add_keyword_command, save_reply), and the edit of a rule's     *)
(* response (start_edit_keyword, start_edit_response,                      *)
(* receive_new_response).  A keyword's id is its chat and its position in  *)
(* the chat's rules.  Each handler is an action with the guards of its     *)
(* code; the dispatch of updates to handlers belongs to the library.       *)
(***************************************************************************)
\* a message of the platform: its text and the file ids of its attachments
Message(text, photo, video, document, animation, audio, voice, sticker) ==
    [text |-> text, photo |-> photo, video |-> video, document |-> document,
     animation |-> animation, audio |-> audio, voice |-> voice,
     sticker |-> sticker]

MsgText == Message(<<"y", "o">>, "", "", "", "", "", "", "")
MsgPhoto == Message(<<>>, "p1", "", "", "", "", "", "")
MsgVideo == Message(<<>>, "", "v1", "", "", "", "", "")
MsgDocument == Message(<<>>, "", "", "d1", "", "", "", "")
\* the platform attaches an animation as a document as well
MsgAnimation == Message(<<>>, "", "", "g1", "g1", "", "", "")
MsgAudio == Message(<<>>, "", "", "", "", "a1", "", "")
MsgVoice == Message(<<>>, "", "", "", "", "", "o1", "")
MsgSticker == Message(<<>>, "", "", "", "", "", "", "s1")
\* a message with none of these, such as a location
MsgLocation == Message(<<>>, "", "", "", "", "", "", "")

Messages ==
    {MsgText, MsgPhoto, MsgVideo, MsgDocument, MsgAnimation, MsgAudio,
     MsgVoice, MsgSticker, MsgLocation}
\* the messages sent as the new response of an edited rule
EditMessages == {MsgText, MsgPhoto, MsgAnimation, MsgSticker, MsgLocation}

\* str.strip() on the model's texts
RECURSIVE LStrip(_)
LStrip(s) ==
    IF s # <<>> /\ Head(s) \in SpaceChars THEN LStrip(Tail(s)) ELSE s
RECURSIVE RStrip(_)
RStrip(s) ==
    IF s # <<>> /\ s[Len(s)] \in SpaceChars
    THEN RStrip(SubSeq(s, 1, Len(s) - 1)) ELSE s
Strip(s) == RStrip(LStrip(s))

\* the texts an administrator sends as a phrase
PhraseTexts == {<<" ", "H", "i", " ">>, <<" ">>}

\* Keyword(group_id, phrase, lang): the response columns are None
NewKeyword(phrase) == Rule(phrase, <<>>, "", "")

\* what a keyword handler did: the rule it persisted, if it persisted one
KeywordManagementObservation(op, chat, rule, persisted, was_file) ==
    [op |-> op, chat |-> chat, rule |-> rule, persisted |-> persisted,
     was_file |-> was_file]

TotalKeywords == Len(keywords[1]) + Len(keywords[2])

KeywordExists(id) ==
    /\ id[1] \in Chats
    /\ id[2] \in 1..Len(keywords[id[1]])

\* the response of a new rule, from the message that carries it
SupportedResponse(message) ==
    \/ message.text # <<>>
    \/ message.photo # ""
    \/ message.video # ""
    \/ message.document # ""

KeywordResponse(kw, message) ==
    IF message.text # <<>>
    THEN [kw EXCEPT !.response_text = message.text]
    ELSE IF message.photo # ""
    THEN [kw EXCEPT !.response_file_type = "photo",
                    !.response_file_id = message.photo]
    ELSE IF message.video # ""
    THEN [kw EXCEPT !.response_file_type = "video",
                    !.response_file_id = message.video]
    ELSE IF message.document # ""
    THEN [kw EXCEPT !.response_file_type = "document",
                    !.response_file_id = message.document]
    ELSE kw

ReplyResponse(kw, message) ==
    IF message.text # <<>>
    THEN [kw EXCEPT !.response_text = message.text]
    ELSE IF message.photo # ""
    THEN [kw EXCEPT !.response_file_type = "photo",
                    !.response_file_id = message.photo]
    ELSE IF message.video # ""
    THEN [kw EXCEPT !.response_file_type = "video",
                    !.response_file_id = message.video]
    ELSE IF message.document # ""
    THEN [kw EXCEPT !.response_file_type = "document",
                    !.response_file_id = message.document]
    ELSE kw

\* start_add_keyword: the group's id is stored before the platform is asked
\* for the chat, so it stays stored when that call fails; it returns
\* AWAITING_KEYWORD_PHRASE
StartAddKeyword(chat) ==
    /\ user_data' = [user_data EXCEPT !.selected_chat_id = chat,
                                      !.conversation = AWAITING_KEYWORD_PHRASE]
    /\ last' = KeywordManagementObservation("start_add_keyword", NoChat, 0,
                                            FALSE, FALSE)
    /\ UNCHANGED <<now, group_settings, keywords, message_history, link_history,
                   ban_cache, file_cache, inflight, tmp_handlers, sent>>

\* get_keyword_phrase: a message without text is answered and changes
\* nothing; it returns AWAITING_NEW_RESPONSE
GetKeywordPhrase(text) ==
    /\ text # <<>>
    /\ user_data' = [user_data EXCEPT !.new_keyword_phrase = Lower(Strip(text)),
                                      !.conversation = AWAITING_NEW_RESPONSE]
    /\ last' = KeywordManagementObservation("get_keyword_phrase", NoChat, 0,
                                            FALSE, FALSE)
    /\ UNCHANGED <<now, group_settings, keywords, message_history, link_history,
                   ban_cache, file_cache, inflight, tmp_handlers, sent>>

\* get_keyword_response: without a group id, a phrase or a row of the group
\* it returns END and persists nothing; with a content that is not
\* supported it returns AWAITING_NEW_RESPONSE and persists nothing;
\* otherwise it persists the rule, removes the two keys and returns END
ResponseDataAssumed == TRUE
ResponseDataPresent ==
    /\ user_data.selected_chat_id # NoChat
    /\ user_data.new_keyword_phrase # <<>>
    /\ group_settings[user_data.selected_chat_id].exists

\* what get_keyword_response did with a message
ResponseObservation(chat, rule, persisted, supported) ==
    [op |-> "get_keyword_response", chat |-> chat, rule |-> rule,
     persisted |-> persisted, was_file |-> FALSE, supported |-> supported]

GetKeywordResponse(message) ==
    /\ TotalKeywords < MaxKeywords
    /\ IF ResponseDataPresent /\ SupportedResponse(message)
       THEN /\ keywords' =
                 [keywords EXCEPT ![user_data.selected_chat_id] =
                     Append(@, KeywordResponse(
                                   NewKeyword(user_data.new_keyword_phrase),
                                   message))]
            /\ user_data' = [user_data EXCEPT !.selected_chat_id = NoChat,
                                              !.new_keyword_phrase = <<>>,
                                              !.conversation = CONVERSATION_END]
            /\ last' = ResponseObservation(
                           user_data.selected_chat_id,
                           Len(keywords[user_data.selected_chat_id]) + 1,
                           TRUE, TRUE)
       ELSE /\ last' = ResponseObservation(NoChat, 0, FALSE,
                                           SupportedResponse(message))
            /\ user_data' =
                 [user_data EXCEPT !.conversation =
                     IF ResponseDataPresent THEN AWAITING_NEW_RESPONSE
                     ELSE CONVERSATION_END]
            /\ UNCHANGED keywords
    /\ UNCHANGED <<now, group_settings, message_history, link_history,
                   ban_cache, file_cache, inflight, tmp_handlers, sent>>

\* cancel_add_keyword: the two keys are removed; it returns END
CancelAddKeyword ==
    /\ user_data' = [user_data EXCEPT !.selected_chat_id = NoChat,
                                      !.new_keyword_phrase = <<>>,
                                      !.conversation = CONVERSATION_END]
    /\ last' = KeywordManagementObservation("cancel_add_keyword", NoChat, 0,
                                            FALSE, FALSE)
    /\ UNCHANGED <<now, group_settings, keywords, message_history, link_history,
                   ban_cache, file_cache, inflight, tmp_handlers, sent>>

\* add_keyword_command of an administrator with arguments: the phrase is
\* " ".join(args).strip().lower(), and a one-time handler waits for the reply
AddKeywordCommand(chat, args) ==
    /\ args # <<>>
    /\ Cardinality(tmp_handlers) < MaxPending
    /\ tmp_handlers' = tmp_handlers
                         \cup {[chat |-> chat, phrase |-> Lower(Strip(Join(args)))]}
    /\ last' = KeywordManagementObservation("add_keyword_command", NoChat, 0,
                                            FALSE, FALSE)
    /\ UNCHANGED <<now, group_settings, keywords, message_history, link_history,
                   ban_cache, file_cache, inflight, user_data, sent>>

\* _ensure_group: a chat without a row gets one with the columns' defaults
EnsureGroup(settings, chat) ==
    IF settings[chat].exists THEN settings
    ELSE [settings EXCEPT ![chat] = Row(5, 10, 3, TRUE)]

\* save_reply for a message that passes check_reply: the group's row is
\* committed first, an unsupported content is answered and leaves the handler
\* registered, otherwise the rule is persisted, its file id cached and the
\* handler removed
SaveReply(h, message) ==
    /\ h \in tmp_handlers
    /\ TotalKeywords < MaxKeywords
    /\ group_settings' = EnsureGroup(group_settings, h.chat)
    /\ IF SupportedResponse(message)
       THEN /\ keywords' =
                 [keywords EXCEPT ![h.chat] =
                     Append(@, ReplyResponse(NewKeyword(h.phrase), message))]
            /\ file_cache' =
                 IF ReplyResponse(NewKeyword(h.phrase), message).response_file_id # ""
                 THEN TTLSet(file_cache,
                             ReplyResponse(NewKeyword(h.phrase), message).response_file_id,
                             ReplyResponse(NewKeyword(h.phrase), message).response_file_type,
                             now, FILE_ID_TTL, FILE_CACHE_MAXSIZE)
                 ELSE file_cache
            /\ tmp_handlers' = tmp_handlers \ {h}
            /\ last' = KeywordManagementObservation(
                           "save_reply", h.chat, Len(keywords[h.chat]) + 1,
                           TRUE, FALSE)
       ELSE /\ last' = KeywordManagementObservation("save_reply", NoChat, 0,
                                                    FALSE, FALSE)
            /\ UNCHANGED <<keywords, file_cache, tmp_handlers>>
    /\ UNCHANGED <<now, message_history, link_history, ban_cache, inflight,
                   user_data, sent>>

\* start_edit_keyword for a keyword that exists
StartEditKeyword(id) ==
    /\ KeywordExists(id)
    /\ user_data' = [user_data EXCEPT
                        !.editing_keyword_id = id,
                        !.editing_keyword_phrase = keywords[id[1]][id[2]].phrase]
    /\ last' = KeywordManagementObservation("start_edit_keyword", NoChat, 0,
                                            FALSE, FALSE)
    /\ UNCHANGED <<now, group_settings, keywords, message_history, link_history,
                   ban_cache, file_cache, inflight, tmp_handlers, sent>>

\* start_edit_response for a keyword that exists: user_data is written
\* (lines 400-404) before the handler raises NameError on the undefined
\* names of lines 439-444
StartEditResponse(id) ==
    /\ KeywordExists(id)
    /\ user_data' = [user_data EXCEPT
                        !.selected_chat_id = id[1],
                        !.editing_keyword_id = id,
                        !.editing_keyword_phrase = keywords[id[1]][id[2]].phrase]
    /\ last' = KeywordManagementObservation("start_edit_response", NoChat, 0,
                                            FALSE, FALSE)
    /\ UNCHANGED <<now, group_settings, keywords, message_history, link_history,
                   ban_cache, file_cache, inflight, tmp_handlers, sent>>

\* the content type and file id receive_new_response takes from a message
ContentType(message) ==
    IF message.text # <<>> THEN "text"
    ELSE IF message.photo # "" THEN "photo"
    ELSE IF message.video # "" THEN "video"
    ELSE IF message.document # "" THEN "document"
    ELSE IF message.animation # "" THEN "animation"
    ELSE IF message.audio # "" THEN "audio"
    ELSE IF message.voice # "" THEN "voice"
    ELSE IF message.sticker # "" THEN "sticker"
    ELSE "none"

FileId(message) ==
    IF message.text # <<>> THEN ""
    ELSE IF message.photo # "" THEN message.photo
    ELSE IF message.video # "" THEN message.video
    ELSE IF message.document # "" THEN message.document
    ELSE IF message.animation # "" THEN message.animation
    ELSE IF message.audio # "" THEN message.audio
    ELSE IF message.voice # "" THEN message.voice
    ELSE message.sticker

EditedResponseKeepsOther(kw, message) ==
    IF ContentType(message) = "text"
    THEN [kw EXCEPT !.response_text = message.text]
    ELSE [kw EXCEPT !.response_file_id = FileId(message),
                    !.response_file_type = ContentType(message)]

EditedResponse(kw, message) ==
    IF ContentType(message) = "text"
    THEN [kw EXCEPT !.response_text = message.text,
                    !.response_file_id = "",
                    !.response_file_type = ""]
    ELSE [kw EXCEPT !.response_text = <<>>,
                    !.response_file_id = FileId(message),
                    !.response_file_type = ContentType(message)]

\* receive_new_response: without the edited keyword's id and phrase in
\* user_data it ends; an unsupported content and a keyword that is gone
\* change nothing; otherwise the response is replaced and the editing keys
\* are removed from user_data
ReceiveNewResponse(message) ==
    /\ user_data.editing_keyword_id # NoKeywordId
    /\ user_data.editing_keyword_phrase # <<>>
    /\ IF ContentType(message) # "none" /\ KeywordExists(user_data.editing_keyword_id)
       THEN /\ keywords' =
                 [keywords EXCEPT
                     ![user_data.editing_keyword_id[1]]
                        [user_data.editing_keyword_id[2]] =
                            EditedResponse(@, message)]
            /\ user_data' = [user_data EXCEPT
                                !.editing_keyword_id = NoKeywordId,
                                !.editing_keyword_phrase = <<>>]
            /\ last' = KeywordManagementObservation(
                           "receive_new_response",
                           user_data.editing_keyword_id[1],
                           user_data.editing_keyword_id[2], TRUE,
                           keywords[user_data.editing_keyword_id[1]]
                                   [user_data.editing_keyword_id[2]]
                              .response_file_id # "")
       ELSE /\ last' = KeywordManagementObservation(
                           "receive_new_response", NoChat, 0, FALSE, FALSE)
            /\ UNCHANGED <<keywords, user_data>>
    /\ UNCHANGED <<now, group_settings, message_history, link_history,
                   ban_cache, file_cache, inflight, tmp_handlers, sent>>

KeywordIds == {<<chat, i>> : chat \in Chats, i \in 1..MaxKeywords}

InitKeywords ==
    /\ InitCommon
    /\ group_settings = (1 :> Row(5, 10, 3, TRUE)) @@ (2 :> NoRow)
    /\ keywords = (1 :> <<>>) @@ (2 :> <<>>)

NextKeywords ==
    \/ \E chat \in Chats : StartAddKeyword(chat)
    \/ \E text \in PhraseTexts : GetKeywordPhrase(text)
    \/ \E message \in Messages : GetKeywordResponse(message)
    \/ \E chat \in Chats : AddKeywordCommand(chat, <<<<"H", "i">>>>)
    \/ \E h \in tmp_handlers : \E message \in Messages : SaveReply(h, message)
    \/ \E id \in KeywordIds : StartEditKeyword(id)
    \/ \E id \in KeywordIds : StartEditResponse(id)
    \/ \E message \in EditMessages : ReceiveNewResponse(message)

SpecKeywords == InitKeywords /\ [][NextKeywords]_vars

(***************************************************************************)
(* The settings handlers.  A handler works on the rows inside              *)
(* `async with async_session() as session`: what it writes reaches the     *)
(* database when session.commit() returns; when the flush or the commit    *)
(* raises, the block is left, the session is closed and its transaction    *)
(* rolled back.  db is what the database does with the block: "ok" or      *)
(* "error".                                                                *)
(***************************************************************************)
\* a session whose writes stay when the commit raises
SessionCommitKeepsWrites(stored, written, db) == written
SessionCommit(stored, written, db) == IF db = "ok" THEN written ELSE stored

SettingsObservation(op, action, chat, value, db, raised) ==
    [op |-> op, action |-> action, chat |-> chat, value |-> value, db |-> db,
     raised |-> raised]

\* the rows the action's branch writes before it commits
SettingsWritten(settings, action, chat, value) ==
    CASE action = "set_spam_limit" ->
           [EnsureGroup(settings, chat) EXCEPT ![chat].spam_limit = value]
      [] action = "set_spam_interval" ->
           [EnsureGroup(settings, chat) EXCEPT ![chat].spam_interval = value]
      [] action = "set_link_spam_limit" ->
           [EnsureGroup(settings, chat) EXCEPT ![chat].link_spam_limit = value]
      [] action = "link_spam_toggle" ->
           IF settings[chat].exists
           THEN [settings EXCEPT ![chat].link_spam_enabled = ~@]
           ELSE settings

\* spam_settings_callback for the data "<action>:<chat>:<value>".  The set_
\* branches reject a value below 1 before they open a session and catch
\* ValueError only, so a database error leaves the handler; the toggle
\* catches every exception.
SpamSettingsCallback(action, chat, value, db) ==
    /\ user_data' = [user_data EXCEPT !.selected_chat_id = chat]
    /\ IF action # "link_spam_toggle" /\ value < 1
       THEN /\ group_settings' = group_settings
            /\ last' = SettingsObservation("spam_settings_callback", action,
                                           chat, value, "none", FALSE)
       ELSE /\ group_settings' =
                 SessionCommit(group_settings,
                               SettingsWritten(group_settings, action, chat, value),
                               db)
            /\ last' = SettingsObservation(
                           "spam_settings_callback", action, chat, value, db,
                           db # "ok" /\ action # "link_spam_toggle")
    /\ UNCHANGED <<now, keywords, message_history, link_history, ban_cache,
                   file_cache, inflight, tmp_handlers, sent>>

\* chat_member_update_handler for a change of the bot's own status in a
\* group: a row is ensured when the bot is a member or an administrator;
\* every exception is caught and logged
ChatMemberUpdateHandler(chat, new_status, db) ==
    /\ group_settings' =
         SessionCommit(group_settings,
                       IF new_status \in {"member", "administrator"}
                       THEN EnsureGroup(group_settings, chat)
                       ELSE group_settings,
                       db)
    /\ last' = SettingsObservation("chat_member_update_handler", new_status,
                                   chat, 0, db, FALSE)
    /\ UNCHANGED <<now, keywords, message_history, link_history, ban_cache,
                   file_cache, inflight, user_data, tmp_handlers, sent>>

(***************************************************************************)
(* SpecSettings: the settings of two groups, the first with a row or       *)
(* without, changed through the menu's callbacks with values below and     *)
(* above 1, and the bot joining or leaving the second group; the database  *)
(* may fail in every session.                                              *)
(***************************************************************************)
SettingsActions ==
    {"set_spam_limit", "set_spam_interval", "set_link_spam_limit",
     "link_spam_toggle"}

InitSettings ==
    /\ InitCommon
    /\ \E row \in {NoRow, Row(5, 10, 3, TRUE)} :
          group_settings = (1 :> row) @@ (2 :> NoRow)
    /\ keywords = (1 :> <<>>) @@ (2 :> <<>>)

NextSettings ==
    \/ \E action \in SettingsActions : \E value \in {0, 1, 20} :
       \E db \in {"ok", "error"} :
          SpamSettingsCallback(action, 1, value, db)
    \/ \E new_status \in {"member", "left"} : \E db \in {"ok", "error"} :
          ChatMemberUpdateHandler(2, new_status, db)

SpecSettings == InitSettings /\ [][NextSettings]_vars

(***************************************************************************)
(* SpecPanel: SpecSettings with requests below 1 of either sign, and the   *)
(* +1 and -1 buttons of the group panel pressed in the first group; the    *)
(* limit is raised up to MaxLimit.                                         *)
(***************************************************************************)
MaxLimit == 6

\* a panel that takes the limit as it comes
NewPanelLimitUnclamped(spam_limit, delta) == spam_limit + delta
\* new_limit = max(1, grp.spam_limit + delta)
NewPanelLimit(spam_limit, delta) == Max(1, spam_limit + delta)

\* panel_callback for "panel:spam_inc" and "panel:spam_dec" in the group's
\* chat; value is the limit asked for, before it is clamped
PanelCallback(data, chat, db) ==
    LET delta == IF data = "panel:spam_inc" THEN 1 ELSE -1
        grp == EnsureGroup(group_settings, chat)
    IN  /\ grp[chat].spam_limit + delta <= MaxLimit
        /\ group_settings' =
             SessionCommit(group_settings,
                           [grp EXCEPT ![chat].spam_limit = NewPanelLimit(@, delta)],
                           db)
        /\ last' = SettingsObservation("panel_callback", data, chat,
                                       grp[chat].spam_limit + delta, db,
                                       db # "ok")
        /\ UNCHANGED <<now, keywords, message_history, link_history, ban_cache,
                       file_cache, inflight, user_data, tmp_handlers, sent>>

NextPanel ==
    \/ \E action \in SettingsActions : \E value \in {-1, 0, 1, 2} :
       \E db \in {"ok", "error"} :
          SpamSettingsCallback(action, 1, value, db)
    \/ \E data \in {"panel:spam_inc", "panel:spam_dec"} :
       \E db \in {"ok", "error"} :
          PanelCallback(data, 1, db)
    \/ \E new_status \in {"member", "left"} : \E db \in {"ok", "error"} :
          ChatMemberUpdateHandler(2, new_status, db)

SpecPanel == InitSettings /\ [][NextPanel]_vars

(***************************************************************************)
(* SpecConversation: add_keyword_conversation in the private chat of one   *)
(* administrator of two groups.  The library gives an update to the        *)
(* conversation's handler for the state it has stored for the user: the    *)
(* entry point when there is none, /cancel in every state; callback        *)
(* queries that are no entry point pass the conversation by and reach the  *)
(* other handlers, whatever its state.                                     *)
(***************************************************************************)
\* private_chat_callback for "private:keywords:<chat>": the group is
\* selected, then its rules are listed
PrivateKeywordsCallback(chat) ==
    /\ user_data' = [user_data EXCEPT !.selected_chat_id = chat]
    /\ last' = KeywordManagementObservation("private_chat_callback", NoChat, 0,
                                            FALSE, FALSE)
    /\ UNCHANGED <<now, group_settings, keywords, message_history, link_history,
                   ban_cache, file_cache, inflight, tmp_handlers, sent>>

\* delete_keyword_by_id for a keyword that exists: the row is deleted and
\* its group selected for the list that is shown next
DeleteKeywordById(id) ==
    /\ KeywordExists(id)
    /\ keywords' = [keywords EXCEPT ![id[1]] =
                       SubSeq(@, 1, id[2] - 1) \o SubSeq(@, id[2] + 1, Len(@))]
    /\ user_data' = [user_data EXCEPT !.selected_chat_id = id[1]]
    /\ last' = KeywordManagementObservation("delete_keyword_by_id", NoChat, 0,
                                            FALSE, FALSE)
    /\ UNCHANGED <<now, group_settings, message_history, link_history,
                   ban_cache, file_cache, inflight, tmp_handlers, sent>>

\* the conversation's entry point, states and fallback
EntryPoint(chat) ==
    /\ user_data.conversation = CONVERSATION_END
    /\ StartAddKeyword(chat)

StateAwaitingKeywordPhrase(text) ==
    /\ user_data.conversation = AWAITING_KEYWORD_PHRASE
    /\ GetKeywordPhrase(text)

StateAwaitingNewResponse(message) ==
    /\ user_data.conversation = AWAITING_NEW_RESPONSE
    /\ GetKeywordResponse(message)

Fallback ==
    /\ user_data.conversation # CONVERSATION_END
    /\ CancelAddKeyword

ConversationMessages == {MsgText, MsgPhoto, MsgAnimation, MsgSticker, MsgLocation}

InitConversation ==
    /\ InitCommon
    /\ group_settings = (1 :> Row(5, 10, 3, TRUE)) @@ (2 :> Row(5, 10, 3, TRUE))
    /\ keywords = (1 :> <<>>) @@ (2 :> <<>>)

NextConversation ==
    \/ \E chat \in Chats : EntryPoint(chat)
    \/ \E text \in PhraseTexts : StateAwaitingKeywordPhrase(text)
    \/ \E message \in ConversationMessages : StateAwaitingNewResponse(message)
    \/ Fallback
    \/ \E chat \in Chats : SpamSettingsCallback("link_spam_toggle", chat, 0, "ok")
    \/ \E chat \in Chats : PrivateKeywordsCallback(chat)
    \/ \E id \in KeywordIds : DeleteKeywordById(id)

SpecConversation == InitConversation /\ [][NextConversation]_vars

(***************************************************************************)
(* SpecSelected: SpecConversation with every conversation started from     *)
(* the rule list of the first group, while the buttons of both groups'     *)
(* menus stay where the administrator can press them.                      *)
(***************************************************************************)
StartedChat == 1

NextSelected ==
    \/ EntryPoint(StartedChat)
    \/ \E text \in PhraseTexts : StateAwaitingKeywordPhrase(text)
    \/ \E message \in ConversationMessages : StateAwaitingNewResponse(message)
    \/ Fallback
    \/ \E chat \in Chats : SpamSettingsCallback("link_spam_toggle", chat, 0, "ok")
    \/ \E chat \in Chats : PrivateKeywordsCallback(chat)
    \/ \E id \in KeywordIds : DeleteKeywordById(id)

SpecSelected == InitConversation /\ [][NextSelected]_vars


(***************************************************************************)
(* Properties.  A step is an invocation of check_spam for key k when it    *)
(* leaves the clock alone and ends with the observation of a handle_message*)
(* invocation that reached the rate limiter for k.                         *)
(***************************************************************************)
TheKey == <<1, 1>>

ChecksKey(k) ==
    /\ now' = now
    /\ last'.op = "handle_message"
    /\ last'.spam # "none"
    /\ <<last'.chat, last'.user>> = k

RestrictCalls(calls) ==
    {i \in 1..Len(calls) : calls[i].api = "restrict_chat_member"}

\* C1: whatever spam_limit and spam_interval are configured, a message of a
\* non-exempt user with no active ban that is one of more than spam_limit
\* messages of the key within spam_interval seconds is reported blocked and
\* the ban engine is invoked (one restriction requested).
C1_OverLimitIsBlocked ==
    (/\ last.op = "handle_message"
     /\ last.recorded
     /\ Len(DictGet(sent, TheKey, <<>>)) > ConfLimit(group_settings[1]))
    => (last.blocked /\ RestrictCalls(last.calls) # {})

\* C1, the failing input: under spam_limit = 20 the 21st message within the
\* interval has passed the rate limiter
C1_TwentyFirstMessagePasses ==
    /\ group_settings[1].exists
    /\ group_settings[1].spam_limit = 20
    /\ last.recorded
    /\ ~last.blocked
    /\ Len(DictGet(sent, TheKey, <<>>)) = 21
    /\ TheKey \notin DOMAIN ban_cache

\* the key has a record in the ban cache / its ban has not run out
HasRecord(k) == k \in DOMAIN ban_cache /\ now < ban_cache[k].expires
BanInForce(k) == HasRecord(k) /\ now < ban_cache[k].value.until

\* the step requested a restriction: the ban engine was invoked
Enforces == RestrictCalls(last'.calls) # {}

NothingChanges == UNCHANGED <<message_history, link_history, ban_cache>>

\* C2: while the key's ban is active, every check_spam call for the key
\* reports blocked and changes nothing: no history grows, ban_until and
\* ban_count stay, no restriction is requested.
C2_ActiveBanBlocksEveryCall ==
    [][(BanInForce(TheKey) /\ ChecksKey(TheKey))
       => (last'.blocked /\ NothingChanges /\ ~Enforces)]_vars

\* C2, as the code has it: while the key's ban is active, every check_spam
\* call for the key changes nothing and requests no restriction; it reports
\* blocked unless the privilege lookup answers administrator or owner, and
\* then it reports not blocked.
C2_ActiveBanBlocksUnlessExempt ==
    [][(BanInForce(TheKey) /\ ChecksKey(TheKey))
       => /\ NothingChanges
          /\ ~Enforces
          /\ last'.blocked <=> last'.priv \notin {"administrator", "owner"}]_vars

\* C2, reached: a member's message was blocked by the ban in force, and an
\* earlier message of the key is still in its history
C2_BlockedByActiveBan ==
    /\ BanInForce(TheKey)
    /\ last.op = "handle_message"
    /\ last.priv = "member"
    /\ last.blocked
    /\ ~last.recorded
    /\ last.calls = <<Call("get_chat_member", "status", 0, TRUE)>>

\* the mute of escalation level L
MuteOfLevel(L) ==
    CASE L = 1 -> 60 [] L = 2 -> 300 [] L = 3 -> 1800 [] L = 4 -> 3600
      [] OTHER -> 21600

\* C3: the ban issued at escalation level L mutes for the L-th entry of
\* (60, 300, 1800, 3600, 21600) seconds, for 21600 seconds at every level
\* from 5 on, and the stored ban_until (and the restriction's until_date) is
\* the time of the violation plus that duration.
C3_MuteFollowsTable ==
    [][(ChecksKey(TheKey) /\ Enforces)
       => LET rec == ban_cache'[TheKey].value
          IN  /\ rec.count >= 1
              /\ rec.until = now + MuteOfLevel(rec.count)
              /\ \A i \in RestrictCalls(last'.calls) :
                    last'.calls[i].until_date = rec.until]_vars

\* C3, reached: a ban of level 7, 21600 seconds long
C3_SaturatedBan ==
    /\ HasRecord(TheKey)
    /\ ban_cache[TheKey].value.count = 7
    /\ ban_cache[TheKey].value.until = now + 21600
    /\ last.blocked
    /\ last.recorded

\* C4: the key's level is 1 on its first violation and one more than the
\* record's level on every violation that finds the key's record (its ban
\* running or run out) in the cache; the violation after the first ban has
\* run out is of level 2 and mutes for 300 seconds.
C4_LevelGrowsByOne ==
    [][(ChecksKey(TheKey) /\ Enforces)
       => LET rec == ban_cache'[TheKey].value
          IN  /\ rec.count = IF HasRecord(TheKey)
                             THEN ban_cache[TheKey].value.count + 1 ELSE 1
              /\ rec.count = 2 => rec.until = now + 300]_vars

\* C4, reached: the first ban has run out and the next violation is of
\* level 2, muting for 300 seconds
C4_SecondBan ==
    /\ HasRecord(TheKey)
    /\ ban_cache[TheKey].value.count = 2
    /\ ban_cache[TheKey].value.until = now + 300
    /\ now = 60
    /\ last.blocked
    /\ last.recorded

\* the step is unblock_user for the key
UnblocksKey(k) ==
    /\ now' = now
    /\ last'.op = "unblock_user"
    /\ <<last'.chat, last'.user>> = k

\* C5: after unblock_user the key has no ban record, no message history and
\* no link history, whatever it had before, and the violation that finds no
\* record is a first violation: ban_count 1, 60 seconds.
C5_UnblockResets ==
    [][/\ UnblocksKey(TheKey)
          => /\ ~HasRecord(TheKey)'
             /\ TheKey \notin DOMAIN message_history'
             /\ TheKey \notin DOMAIN link_history'
       /\ (ChecksKey(TheKey) /\ Enforces /\ ~HasRecord(TheKey))
          => /\ ban_cache'[TheKey].value.count = 1
             /\ ban_cache'[TheKey].value.until = now + 60]_vars

\* C5, reached: a key that was unblocked after a ban (the clock has moved,
\* the record's 24 hours have not passed) is banned at level 1 again
C5_FirstViolationAgain ==
    /\ now > 0
    /\ now < BAN_CACHE_TTL
    /\ HasRecord(TheKey)
    /\ ban_cache[TheKey].value.count = 1
    /\ ban_cache[TheKey].value.until = now + 60
    /\ last.blocked
    /\ last.recorded

\* C6: unblock_user is idempotent on the in-memory state: from every state,
\* the ban cache and the histories after two calls for the key are those
\* after one call, in which the key is clean; the second call cannot fail
\* (it is enabled whatever the first one left).
C6_UnblockIdempotent ==
    LET once == UnblockState(ban_cache, message_history, link_history,
                             TheKey, now)
        twice == UnblockState(once.cache, once.mh, once.lh, TheKey, now)
    IN  /\ twice = once
        /\ ~CacheContains(once.cache, TheKey, now)
        /\ TheKey \notin DOMAIN once.mh
        /\ TheKey \notin DOMAIN once.lh
        /\ last.op = "unblock_user"
           => /\ once = [cache |-> ban_cache, mh |-> message_history,
                         lh |-> link_history]
              /\ ENABLED UnblockUser(1, 1, TRUE)

\* C6, reached: unblock_user ran on a key that is already clean, after its
\* platform call failed, and the key had records before (it was banned when
\* the clock moved)
C6_SecondUnblock ==
    /\ last.op = "unblock_user"
    /\ last.calls = <<Call("restrict_chat_member", "restore", 0, FALSE)>>
    /\ now > 0
    /\ TheKey \notin DOMAIN ban_cache
    /\ TheKey \notin DOMAIN message_history
    /\ TheKey \notin DOMAIN link_history

\* the rate limit applies to the call: it is refused or it is counted
RateLimited == last'.blocked \/ message_history' # message_history

\* C7: check_spam exempts the user (not blocked, histories and ban record
\* unchanged, no call but the lookup) exactly when the lookup succeeds with
\* administrator or owner; when the lookup fails the user is rate limited,
\* and check_spam does what it does for a member.
C7_ExemptExactlyAdmins ==
    /\ [][ChecksKey(TheKey)
          => IF last'.priv \in {"administrator", "owner"}
             THEN ~last'.blocked /\ NothingChanges /\ Len(last'.calls) = 1
             ELSE RateLimited]_vars
    /\ [](\A upd \in Updates : \A out \in Outcomes :
            LET conf == group_settings[upd.chat]
                e == CheckSpam(upd.chat, upd.user, upd.text, conf, "error", out)
                m == CheckSpam(upd.chat, upd.user, upd.text, conf, "member", out)
            IN  /\ e.blocked = m.blocked
                /\ e.mh = m.mh
                /\ e.lh = m.lh
                /\ e.cache = m.cache
                /\ SubSeq(e.calls, 2, Len(e.calls)) = SubSeq(m.calls, 2, Len(m.calls)))

\* C7, reached: the lookup failed and the user was banned for exceeding the
\* message limit
C7_BannedAfterFailedLookup ==
    /\ last.op = "handle_message"
    /\ last.priv = "error"
    /\ last.blocked
    /\ last.recorded
    /\ RestrictCalls(last.calls) # {}
    /\ BanInForce(TheKey)

\* the timestamps of h within the interval of the clock
WithinInterval(h, interval) ==
    LET Recent(x) == now - x <= interval IN SelectSeq(h, Recent)

\* the call counts a link: it is counted as a message, it is not over the
\* message limit, its text holds a link and links are checked
CountsLink ==
    /\ last'.recorded
    /\ Len(message_history'[TheKey]) <= group_settings[1].spam_limit
    /\ last'.has_link
    /\ group_settings[1].link_spam_enabled

LinkHistoryGrows ==
    /\ TheKey \in DOMAIN link_history'
    /\ link_history'[TheKey] =
          WithinInterval(DictGet(link_history, TheKey, <<>>) \o <<now>>,
                         group_settings[1].spam_interval)

FailedRestrictions(calls) ==
    {i \in RestrictCalls(calls) : ~calls[i].ok}
FailureNotices(calls) ==
    {i \in 1..Len(calls) : calls[i].what = "failure_notice"}

\* C9: when the restriction call of an enforcement fails, check_spam still
\* reports blocked and the handler ends normally, the restriction is called
\* once, and the one call after it is the failure notice, whose own failure
\* changes nothing.
C9_FailedRestrictionIsReported ==
    [][(ChecksKey(TheKey) /\ FailedRestrictions(last'.calls) # {})
       => /\ last'.blocked
          /\ last'.path = "blocked"
          /\ ~last'.raised
          /\ Cardinality(RestrictCalls(last'.calls)) = 1
          /\ FailureNotices(last'.calls) = {Len(last'.calls)}
          /\ RestrictCalls(last'.calls) = {Len(last'.calls) - 1}
          /\ HasRecord(TheKey)'
          /\ ban_cache'[TheKey].value.until > now]_vars

\* C9, reached: the restriction failed and so did the failure notice; the
\* message is blocked
C9_RestrictionAndNoticeFailed ==
    /\ last.op = "handle_message"
    /\ last.blocked
    /\ FailedRestrictions(last.calls) # {}
    /\ \E i \in FailureNotices(last.calls) : ~last.calls[i].ok

\* C10: the rate-limit check comes before the keyword resolution: a message
\* that check_spam reports blocked gets no keyword reply (neither pass runs,
\* the file cache is not written), and every message that got a reply or
\* reached the keyword stage had been checked and let through.
C10_BlockedGetsNoReply ==
    /\ [](last.blocked
            => /\ last.replies = <<>>
               /\ ~last.fallback
               /\ ~last.raised
               /\ last.path = "blocked")
    /\ []((last.replies # <<>> \/ last.fallback \/ last.path = "resolved")
            => last.spam \in {"pass", "exempt", "no_user"} /\ ~last.blocked)
    /\ [][(ChecksKey(TheKey) /\ last'.blocked)
            => file_cache' = file_cache]_vars

\* C10, reached: a message holding a keyword was blocked by the rate limiter
\* and got no reply, after the same message had been answered
C10_BlockedKeywordMessage ==
    /\ last.op = "handle_message"
    /\ last.blocked
    /\ last.replies = <<>>
    /\ last.recorded
    /\ "f1" \in DOMAIN file_cache
    /\ TheKey \in DOMAIN message_history
    /\ message_history[TheKey] = <<now, now>>

\* a step in which a suspended invocation for key k resumes and runs check_spam
ResumesKey(k) ==
    /\ ChecksKey(k)
    /\ inflight'.lookup = inflight.lookup - 1

\* C11: when messages of one key are handled concurrently no update to the
\* key's state is lost: every message that passes the active-ban check is
\* appended to the history the earlier ones left, a message that crosses the
\* limit raises ban_count by one, the messages resumed while that ban is in
\* force are short-circuited and change nothing, and so the burst leaves
\* ban_count at exactly one.
C11_NoLostUpdate ==
    /\ [][(ResumesKey(TheKey)
           /\ last'.spam \notin {"no_user", "exempt", "active_ban"})
          => /\ last'.recorded
             /\ message_history'[TheKey]
                  = DropOld(DictGet(message_history, TheKey, <<>>) \o <<now>>,
                            now, ConfInterval(group_settings[1]))]_vars
    /\ [][(ResumesKey(TheKey) /\ last'.spam = "message_limit")
          => /\ ~BanInForce(TheKey)
             /\ ban_cache'[TheKey].value.count
                  = CurrentBanCount(ban_cache, TheKey, now) + 1
             /\ ban_cache'[TheKey].value.until > now]_vars
    /\ [][(ResumesKey(TheKey) /\ ~IsExempt(last'.priv) /\ BanInForce(TheKey))
          => /\ last'.spam = "active_ban"
             /\ last'.blocked
             /\ NothingChanges]_vars
    /\ [](TheKey \in DOMAIN sent => message_history[TheKey] = sent[TheKey])
    /\ [](HasRecord(TheKey) => ban_cache[TheKey].value.count = 1)

\* C11, reached: four messages were in flight together under a limit of 1;
\* the second to resume was banned, and the last was short-circuited while
\* the platform calls of that ban had not returned yet
C11_BurstBannedOnce ==
    /\ inflight = InFlight(0, 1, MaxArrived)
    /\ last.spam = "active_ban"
    /\ HasRecord(TheKey)
    /\ ban_cache[TheKey].value.count = 1
    /\ message_history[TheKey] = <<now, now>>

\* the entry of the list for key k, if any
ListedFor(listed, k) == {r \in listed : r.chat_id = k[1] /\ r.user_id = k[2]}

\* C12: get_banned_users(chat_id) lists exactly the records whose ban_until
\* is later than the clock, those of chat_id only when one is given, each
\* once with its user id, chat id, ban_until and ban_count; a record that
\* ran out and a record of another chat are not listed, and the query
\* changes no state.
C12_ListsExactlyActiveBans ==
    [][(now' = now /\ last'.op = "get_banned_users")
       => /\ \A k \in Keys :
                IF BanInForce(k) /\ (last'.chat = NoChat \/ k[1] = last'.chat)
                THEN ListedFor(last'.listed, k)
                       = {[user_id |-> k[2], chat_id |-> k[1],
                           ban_until |-> ban_cache[k].value.until,
                           ban_count |-> ban_cache[k].value.count]}
                ELSE ListedFor(last'.listed, k) = {}
          /\ \A r \in last'.listed : <<r.chat_id, r.user_id>> \in Keys
          /\ UNCHANGED <<now, group_settings, keywords, message_history,
                         link_history, ban_cache, file_cache, inflight, sent>>]_vars

\* C12, reached: asked for all groups, the list holds the active ban of group
\* 1 and not the record of group 2, whose ban has run out
C12_ListedOneOfTwoRecords ==
    /\ last.op = "get_banned_users"
    /\ last.chat = NoChat
    /\ Cardinality(last.listed) = 1
    /\ BanInForce(<<1, 1>>)
    /\ HasRecord(<<2, 1>>)
    /\ ~BanInForce(<<2, 1>>)

\* the key's record was last written 24 hours ago or earlier
RecordIdle(k) == k \in DOMAIN ban_cache /\ now >= ban_cache[k].expires

\* C13: a ban record lives 24 hours from its last write (every write of the
\* record stamps it anew); a record not written for 24 hours is gone: it
\* blocks nothing and the key's next violation is of level 1, 60 seconds,
\* whatever its level was.
C13_IdleRecordIsGone ==
    /\ [][(TheKey \in DOMAIN ban_cache'
           /\ (TheKey \notin DOMAIN ban_cache
               \/ ban_cache'[TheKey] # ban_cache[TheKey]))
          => ban_cache'[TheKey].expires = now + BAN_CACHE_TTL]_vars
    /\ [][(ChecksKey(TheKey) /\ RecordIdle(TheKey))
          => /\ last'.spam # "active_ban"
             /\ IF Enforces
                THEN /\ ban_cache'[TheKey].value.count = 1
                     /\ ban_cache'[TheKey].value.until = now + 60
                ELSE ~HasRecord(TheKey)']_vars

\* C13, reached: the key was banned, its ban ran out and the record lay
\* unwritten for 24 hours; the violation after that is of level 1
C13_LevelOneAfterIdleDay ==
    /\ now >= BAN_CACHE_TTL
    /\ HasRecord(TheKey)
    /\ ban_cache[TheKey].value.count = 1
    /\ ban_cache[TheKey].value.until = now + 60
    /\ last.blocked
    /\ last.recorded

\* C14: once the clock has reached ban_until, a message of the (non-exempt)
\* user is not short-circuited: it goes through the rate-limit checks and is
\* recorded; unless those checks ban the user again (one level up), the
\* record is kept as run out (ban_until <= now) with ban_count unchanged.
\* A message is short-circuited only while now < ban_until.
C14_BanEndsAtUntil ==
    /\ [][(ChecksKey(TheKey) /\ ~IsExempt(last'.priv)
           /\ HasRecord(TheKey) /\ now >= ban_cache[TheKey].value.until)
          => /\ last'.spam \in {"pass", "message_limit", "link_limit"}
             /\ last'.recorded
             /\ HasRecord(TheKey)'
             /\ IF Enforces
                THEN ban_cache'[TheKey].value.count
                       = ban_cache[TheKey].value.count + 1
                ELSE /\ ban_cache'[TheKey].value.count
                          = ban_cache[TheKey].value.count
                     /\ ban_cache'[TheKey].value.until <= now]_vars
    /\ [][(ChecksKey(TheKey) /\ last'.spam = "active_ban")
          => BanInForce(TheKey)]_vars

\* C14, reached: at the very second the second ban ended (300 seconds after
\* it began at 60) a message passed the checks, and the record stays with
\* ban_count 2 and a ban_until not later than the clock
C14_PassedAtUntil ==
    /\ now = 360
    /\ last.op = "handle_message"
    /\ last.spam = "pass"
    /\ last.recorded
    /\ HasRecord(TheKey)
    /\ ban_cache[TheKey].value.count = 2
    /\ ban_cache[TheKey].value.until <= now

\* the rules of the group that match the text, by match_keyword's verdict
MatchingRules(text, rules) ==
    {i \in 1..Len(rules) : match_keyword(text, rules[i]).is_match}

\* C15: the resolver returns the first rule in iteration order that matches
\* the text (none when no rule matches): no later rule replaces an earlier
\* matching one.
C15_FirstMatchWins ==
    (last.op = "resolve" /\ ~last.raised)
    => LET matching == MatchingRules(last.text, keywords[1])
       IN  IF matching = {} THEN last.best = 0
           ELSE last.best = SetMin(matching)

\* C15, the failing input: a text of 1001 characters holding the phrases of
\* both rules; the first rule matches through the direct window, which
\* reports 0.95, and the second, whose containment reports 1.0, is returned
C15_LaterRuleReplacesEarlier ==
    /\ last.op = "resolve"
    /\ last.text = LongText
    /\ keywords[1] = <<RuleHi, RuleTen>>
    /\ match_keyword(LongText, RuleHi).is_match
    /\ match_keyword(LongText, RuleHi).score = 95
    /\ last.best = 2

\* the rules whose case-normalised phrase is literally contained in the text
ContainedRules(text, rules) ==
    {i \in 1..Len(rules) :
        IF rules[i].case_sensitive
        THEN Contains(text, rules[i].phrase)
        ELSE Contains(Lower(text), Lower(rules[i].phrase))}

\* the replies of the fallback pass
FallbackReplies(replies) == SelectSeq(replies, LAMBDA r : r.pass = "fallback")

\* C16: when the budget of the primary pass runs out, the fallback pass
\* replies with the first rule in iteration order whose case-normalised
\* phrase is literally contained in the text (with none when no phrase is
\* contained), whatever the rules' pattern, transliteration and fuzzy
\* options are, and the handler does not raise.
C16_FallbackRepliesFirstContained ==
    (last.op = "handle_message" /\ last.fallback)
    => /\ ~last.raised
       /\ IF ContainedRules(last.text, keywords[1]) = {}
          THEN FallbackReplies(last.replies) = <<>>
          ELSE /\ Len(FallbackReplies(last.replies)) = 1
               /\ FallbackReplies(last.replies)[1].rule
                    = SetMin(ContainedRules(last.text, keywords[1]))

\* C16, the failing input: the budget ran out on a text that holds the
\* phrase of the rule answering with a text; the fallback pass found the
\* rule and no reply went out
C16_FallbackFoundRuleWithoutReply ==
    /\ last.op = "handle_message"
    /\ last.fallback
    /\ last.text = TextOther
    /\ ContainedRules(last.text, keywords[1]) = {2}
    /\ keywords[1][2].response_text # <<>>
    /\ last.replies = <<>>
    /\ ~last.raised

\* the budget ran out while the rules were being matched
ElapsedInScan == last.budget \in {"after_scan_unsent", "after_scan_sent"}

\* the replies of the primary pass
PrimaryReplies(replies) == SelectSeq(replies, LAMBDA r : r.pass = "primary")

\* C17: when the budget runs out while the rules are being matched, the
\* scan is stopped before it has run through and the fallback pass takes
\* over: the primary pass, cut short, answers nothing.
C17_ScanStopsAtBudget ==
    (last.op = "handle_message" /\ last.path = "resolved" /\ ElapsedInScan)
    => /\ ~last.scanned
       /\ last.fallback
       /\ PrimaryReplies(last.replies) = <<>>

\* C17, the failing input: the budget ran out during the scan, the scan ran
\* through all the same, its match was answered, and the fallback pass then
\* answered the message a second time
C17_ScanRanThroughPastBudget ==
    /\ last.op = "handle_message"
    /\ last.budget = "after_scan_sent"
    /\ last.scanned
    /\ last.fallback
    /\ Len(PrimaryReplies(last.replies)) = 1
    /\ Len(FallbackReplies(last.replies)) = 1

\* text and phrase as match_keyword compares them
Normalised(s, rule) == IF rule.case_sensitive THEN s ELSE Lower(s)

\* the signals of a rule on a text: containment, glob, containment after
\* transliteration, fuzzy match with or without transliteration
PositiveSignal(text, phrase, rule) ==
    \/ Contains(text, phrase)
    \/ rule.is_pattern /\ match_with_pattern(text, phrase)
    \/ /\ rule.transliterate_enabled
       /\ \/ Contains(transliterate_ru_to_en(text), phrase)
          \/ Contains(transliterate_en_to_ru(text), phrase)
    \/ /\ rule.fuzzy_enabled
       /\ \/ fuzzy_match(text, phrase, THRESHOLD) = "match"
          \/ /\ rule.transliterate_enabled
             /\ \/ fuzzy_match(transliterate_ru_to_en(text), phrase, THRESHOLD)
                     = "match"
                \/ fuzzy_match(transliterate_en_to_ru(text), phrase, THRESHOLD)
                     = "match"

\* C18: a rule matches a text if and only if one of its signals is
\* positive; in particular a text that literally contains the
\* case-normalised phrase is matched whatever modes are enabled, for texts
\* of every length.
C18_MatchIffSomeSignal ==
    (last.op = "match_keyword" /\ ~last.raised)
    => (last.matched
        <=> PositiveSignal(Normalised(last.text, keywords[1][last.rule]),
                           Normalised(keywords[1][last.rule].phrase,
                                      keywords[1][last.rule]),
                           keywords[1][last.rule]))

\* C18, the failing input: a text of 1001 characters that literally contains
\* the phrase of a transliterating rule is not matched, while the same rule
\* with transliteration switched off matches it
C18_ContainedPhraseNotMatched ==
    /\ last.op = "match_keyword"
    /\ last.text = LongText
    /\ keywords[1][last.rule] = RuleTranslit
    /\ Contains(Lower(LongText), Lower(RuleTranslit.phrase))
    /\ ~last.matched
    /\ ~last.raised
    /\ match_keyword(LongText,
                     [RuleTranslit EXCEPT !.transliterate_enabled = FALSE]).is_match

\* the response payload of a rule: inline text, or a file id with its type
HasResponseText(kw) == kw.response_text # <<>>
HasResponseFile(kw) == kw.response_file_id # "" /\ kw.response_file_type # ""
ExactlyOneResponse(kw) ==
    /\ HasResponseText(kw) # HasResponseFile(kw)
    /\ HasResponseText(kw) => (kw.response_file_id = "" /\ kw.response_file_type = "")
    /\ (kw.response_file_id # "") <=> (kw.response_file_type # "")

\* C19: every rule persisted by an add-keyword flow, and every rule after
\* its response has been edited, has exactly one of response_text and
\* response_file (file id with file type) set: never both, never neither.
C19_ExactlyOneResponse ==
    \A chat \in Chats :
        \A i \in 1..Len(keywords[chat]) : ExactlyOneResponse(keywords[chat][i])

\* C19, reached: a rule that answered with a file has been edited to answer
\* with a text, next to a rule that an add flow persisted with a file
C19_FileRuleEditedToText ==
    /\ last.op = "receive_new_response"
    /\ last.persisted
    /\ last.was_file
    /\ HasResponseText(keywords[last.chat][last.rule])
    /\ \E chat \in Chats :
          \E i \in 1..Len(keywords[chat]) : HasResponseFile(keywords[chat][i])

\* timestamps in non-decreasing order, none older than the interval
NonDecreasing(h) == \A i \in 1..(Len(h) - 1) : h[i] <= h[i + 1]
NoneOlderThan(h, t, interval) == \A i \in 1..Len(h) : t - h[i] <= interval

\* C20: after every check_spam call that records a message, the key's
\* message history holds at most 20 timestamps in non-decreasing order,
\* none older than spam_interval seconds; the link history holds at most
\* 100 timestamps and is pruned to the interval whenever a link is recorded.
C20_HistoriesBoundedAndPruned ==
    [][(ChecksKey(TheKey) /\ last'.recorded)
       => /\ TheKey \in DOMAIN message_history'
          /\ Len(message_history'[TheKey]) <= 20
          /\ message_history'[TheKey][Len(message_history'[TheKey])] = now
          /\ NonDecreasing(message_history'[TheKey])
          /\ NoneOlderThan(message_history'[TheKey], now,
                           group_settings[1].spam_interval)
          /\ Len(DictGet(link_history', TheKey, <<>>)) <= 100
          /\ NonDecreasing(DictGet(link_history', TheKey, <<>>))
          /\ IF CountsLink
             THEN /\ link_history'[TheKey][Len(link_history'[TheKey])] = now
                  /\ NoneOlderThan(link_history'[TheKey], now,
                                   group_settings[1].spam_interval)
             ELSE TRUE]_vars

\* C20, reached: the 101st message with a link within the interval has been
\* recorded after older ones were pruned; the two histories are full
C20_BothHistoriesFull ==
    /\ last.op = "handle_message"
    /\ last.recorded
    /\ ~last.blocked
    /\ now = 2
    /\ Len(DictGet(sent, TheKey, <<>>)) = 101
    /\ sent[TheKey][1] = 1
    /\ Len(message_history[TheKey]) = 20
    /\ TheKey \in DOMAIN link_history
    /\ Len(link_history[TheKey]) = 100
    /\ link_history[TheKey][1] = 1
    /\ link_history[TheKey][100] = 2

\* C21 as stated: fuzzy_match(phrase, phrase, threshold) is true for every
\* phrase and every threshold <= 1.0, whether the phrase is shorter or
\* longer than the long-input threshold of 200 characters.
C21_FuzzyReflexive ==
    (last.op = "fuzzy_match" /\ last.text = last.phrase)
    => last.result = "match"

\* C21, amended: fuzzy_match(phrase, phrase, threshold) is true for every
\* phrase that is not empty and every threshold <= 1.0, below and above 200
\* characters; for the empty phrase it is false.
C21_FuzzyReflexiveUnlessEmpty ==
    (last.op = "fuzzy_match" /\ last.text = last.phrase)
    => (last.result = "match" <=> last.phrase # <<>>)

\* C21, reached: a phrase of 201 characters matched itself at threshold 1.0
C21_LongPhraseMatchesItself ==
    /\ last.op = "fuzzy_match"
    /\ last.text = last.phrase
    /\ Len(last.phrase) > 200
    /\ last.threshold = <<1, 1>>
    /\ last.result = "match"

\* C22: for every text without glob metacharacters, of any length (below or
\* above the 500-character threshold), match_with_pattern(text, "*foo*") is
\* true if and only if the text contains "foo".
C22_StarFooStarIsContainment ==
    (last.op = "match_with_pattern" /\ last.pattern = <<"*">> \o Foo \o <<"*">>)
    => (last.result <=> Contains(last.text, Foo))

\* C22, reached: a text of 501 characters with "foo" inside matched "*foo*"
C22_LongTextWithFooMatched ==
    /\ last.op = "match_with_pattern"
    /\ last.pattern = <<"*">> \o Foo \o <<"*">>
    /\ last.text = LongWith(Foo, 250)
    /\ last.result

\* C30: for every text longer than 500 characters and every glob pattern,
\* match_with_pattern returns what the whole-text glob match used for short
\* texts returns.
C30_LongTextsMatchAsShortOnes ==
    (last.op = "match_with_pattern" /\ Len(last.text) > PATTERN_LONG_TEXT)
    => (last.result <=> Fnmatch(last.text, last.pattern))

\* C30, the failing input: the pattern "foo" without a wildcard matches a
\* text of 501 characters that holds "foo" inside, which the whole-text glob
\* match does not
C30_PlainPatternMatchesInside ==
    /\ last.op = "match_with_pattern"
    /\ last.pattern = Foo
    /\ last.text = LongWith(Foo, 250)
    /\ last.result
    /\ ~Fnmatch(last.text, last.pattern)

\* C23: a rule with a Cyrillic phrase and transliterate_enabled is returned
\* by the resolver for a text that is the Latin transliteration of that
\* phrase, and symmetrically a Latin phrase is matched by its Cyrillic
\* spelling.
C23_OtherSpellingResolves ==
    (last.op = "resolve") => (last.best = 1 /\ ~last.raised)

\* C23, the failing input: the rule's phrase is the Cyrillic word of the
\* letters shcha and i, the text is its transliteration "schi", and the
\* resolver returns no rule
C23_SchiNotResolved ==
    /\ last.op = "resolve"
    /\ keywords[1][1].phrase = <<"ru_sch", "ru_i">>
    /\ keywords[1][1].transliterate_enabled
    /\ last.text = <<"s", "c", "h", "i">>
    /\ last.text = transliterate_ru_to_en(keywords[1][1].phrase)
    /\ last.best = 0

\* the key's record is a bare ban_until (written before the clock started)
LegacyEntry(k) == k \in DOMAIN ban_cache /\ ~ban_cache[k].value.tuple

\* what check_spam, get_banned_users and unblock_user do with a record in
\* the old format: a running ban blocks and changes nothing, a message that
\* passes rewrites the record as (0, 1), the list gives ban_count 1, the
\* unblock removes the record, and none of them raises
LegacyHandledAsCountOne ==
    /\ (LegacyEntry(TheKey) /\ BanInForce(TheKey) /\ ChecksKey(TheKey))
       => (last'.blocked /\ ~last'.raised /\ NothingChanges)
    /\ (LegacyEntry(TheKey) /\ HasRecord(TheKey) /\ ~BanInForce(TheKey)
           /\ ChecksKey(TheKey) /\ ~Enforces)
       => (ban_cache'[TheKey].value = BanTuple(0, 1) /\ ~last'.raised)
    /\ (LegacyEntry(TheKey) /\ BanInForce(TheKey)
           /\ last'.op = "get_banned_users" /\ last'.chat \in {NoChat, 1})
       => [user_id |-> 1, chat_id |-> 1,
           ban_until |-> ban_cache[TheKey].value.until, ban_count |-> 1]
             \in last'.listed
    /\ (LegacyEntry(<<2, 1>>) /\ UnblocksKey(<<2, 1>>))
       => (~CacheContains(ban_cache', <<2, 1>>, now) /\ ~last'.raised)

KeyRecords(mh, lh, c, x, t) ==
    [messages |-> DictGet(mh, x, <<>>), links |-> DictGet(lh, x, <<>>),
     ban |-> IF CacheContains(c, x, t) THEN <<c[x].value>> ELSE <<>>]

\* the step is an operation on key k: a check_spam call or an unblock_user
OperatesOn(k) == ChecksKey(k) \/ UnblocksKey(k)

\* C25: an operation on one key (recording a message, issuing a ban,
\* expiring a ban, unban) never changes the message history, the link
\* history or the ban record of any other key, however many keys hold
\* records.
C25_OtherKeysUntouched ==
    [][\A k \in {<<1, 1>>, <<1, 2>>, <<1, 3>>} :
          OperatesOn(k)
          => \A x \in (FrameHolders \cup {<<1, 1>>, <<1, 2>>}) \ {k} :
                KeyRecords(message_history', link_history', ban_cache', x, now)
                  = KeyRecords(message_history, link_history, ban_cache, x, now)]_vars

\* C25, the failing input: maxsize keys hold ban records and the ban of one
\* more key has removed the record of user 3, whose ban of level 5 has not
\* run out
C25_BanEvictsOtherKey ==
    /\ last.op = "handle_message"
    /\ last.user \in {1, 2}
    /\ last.spam = "link_limit"
    /\ Cardinality(DOMAIN ban_cache) = BAN_CACHE_MAXSIZE
    /\ {<<1, 1>>, <<1, 2>>} \subseteq DOMAIN ban_cache
    /\ <<1, 3>> \notin DOMAIN ban_cache
    /\ now < FrameRecord(<<1, 3>>).value.until

\* the step is an unblock_user for key k whose platform call failed
UnblockFails(k) ==
    /\ UnblocksKey(k)
    /\ \E i \in RestrictCalls(last'.calls) : ~last'.calls[i].ok

\* C26: unblock_user removes the key's ban record and both histories even
\* when the platform call that restores the permissions fails, and it does
\* not raise.
C26_UnblockSurvivesPlatformError ==
    [][UnblockFails(TheKey)
       => /\ ~CacheContains(ban_cache', TheKey, now)
          /\ TheKey \notin DOMAIN message_history'
          /\ TheKey \notin DOMAIN link_history'
          /\ ~last'.raised]_vars

\* C26, reached: a key that held a ban record has been unblocked, the
\* platform call failed, and the key holds nothing
C26_CleanAfterFailedRestore ==
    /\ last.op = "unblock_user"
    /\ last.had_ban_entry
    /\ ~last.calls[1].ok
    /\ ~last.raised
    /\ ~HasRecord(TheKey)
    /\ TheKey \notin DOMAIN message_history
    /\ TheKey \notin DOMAIN link_history

\* the step is a settings handler's, and its session ended as db
SettingsStep(db) ==
    /\ last' # last
    /\ last'.op \in {"spam_settings_callback", "chat_member_update_handler"}
    /\ last'.db = db

\* C27: when the database session fails while a settings mutation (spam
\* limit, spam interval, link limit, link toggle, the group's row) is being
\* stored, the transaction is rolled back and the stored settings of every
\* group are what they were; a session that commits changes nothing but the
\* addressed group's row, and in it nothing but the addressed column of a
\* row that was there.
C27_FailedSessionChangesNothing ==
    [][/\ SettingsStep("error") => group_settings' = group_settings
       /\ (SettingsStep("ok") /\ last'.op = "spam_settings_callback")
          => /\ group_settings'[2] = group_settings[2]
             /\ group_settings[1].exists
                => Cardinality({f \in DOMAIN group_settings[1] :
                                  group_settings'[1][f] # group_settings[1][f]}) <= 1]_vars

\* C27, reached: the group's interval has been set to 20, and the session
\* that was to store the limit 1 has failed: the row holds the limit and
\* the interval it held before
C27_LimitKeptAfterFailure ==
    /\ last.op = "spam_settings_callback"
    /\ last.action = "set_spam_limit"
    /\ last.value = 1
    /\ last.db = "error"
    /\ last.raised
    /\ group_settings[1] = Row(5, 20, 3, TRUE)

\* the rules whose phrase the fallback pass finds in the text
FallbackFinds(text, rules) ==
    {i \in 1..Len(rules) : FallbackMatches(text, rules[i])}

LinksWithinInterval ==
    Len(WithinInterval(DictGet(link_history, TheKey, <<>>) \o <<now>>,
                       group_settings[1].spam_interval))

\* the step is a check_spam call for the key's text with a link, by a user
\* who is not exempt, under a row that has links counted
ChecksLinkOf(k) ==
    /\ ChecksKey(k)
    /\ last'.has_link
    /\ ~IsExempt(last'.priv)
    /\ group_settings[1].link_spam_enabled

C31_BanKeepsHistories ==
    [][(ChecksKey(TheKey) /\ last'.recorded)
       => /\ TheKey \in DOMAIN message_history'
          /\ message_history'[TheKey] =
                WithinInterval(DictGet(message_history, TheKey, <<>>) \o <<now>>,
                               group_settings[1].spam_interval)
          /\ Enforces
             => /\ last'.spam = "link_limit" => LinkHistoryGrows
                /\ last'.spam # "link_limit" => link_history' = link_history
          /\ last'.blocked
             <=> \/ Len(message_history'[TheKey]) > group_settings[1].spam_limit
                 \/ last'.spam = "link_limit"]_vars

\* C31, reached: two messages at 0 got the user banned until 60; the one
\* message sent at 60, the ban over, is counted with the two from before
\* the ban and is a violation of level 2
C31_OldTimestampsCountAfterBan ==
    /\ now = 60
    /\ last.op = "handle_message"
    /\ last.spam = "message_limit"
    /\ group_settings[1].spam_limit = 1
    /\ HasRecord(TheKey)
    /\ ban_cache[TheKey].value = BanTuple(now + 300, 2)
    /\ message_history[TheKey] = <<0, 0, 60>>

C33_AtMostOneReply ==
    (last.op = "handle_message") => Len(last.replies) <= 1

\* C33, the failing input: the budget ran out while the reply of the
\* primary pass was being sent; the request had reached the platform, and
\* the fallback pass answered the same message with the same rule again
C33_AnsweredTwice ==
    /\ last.op = "handle_message"
    /\ last.text = TextPlain
    /\ last.budget = "after_scan_sent"
    /\ last.fallback
    /\ Len(last.replies) = 2
    /\ last.replies[1].pass = "primary"
    /\ last.replies[2].pass = "fallback"
    /\ last.replies[1].rule = last.replies[2].rule

\* the ban_count the cache holds for the key (0: no record)
RecordedCount(c, k) ==
    IF k \in DOMAIN c /\ now < c[k].expires THEN c[k].value.count ELSE 0

\* C34: one inbound message raises its key's ban_count by at most one and
\* causes at most one restriction request, also when the message exceeds
\* the message limit and the link limit at once.
C34_OneBanPerMessage ==
    [][ChecksKey(TheKey)
       => /\ Cardinality(RestrictCalls(last'.calls)) <= 1
          /\ RecordedCount(ban_cache', TheKey)
               = RecordedCount(ban_cache, TheKey) + (IF Enforces THEN 1 ELSE 0)]_vars

\* C34, reached: a message with a link that is over the message limit, and
\* whose link would have reached the link limit, got the key one ban of
\* level 1 and one restriction request
C34_OverBothLimitsBannedOnce ==
    /\ last.op = "handle_message"
    /\ last.has_link
    /\ last.spam = "message_limit"
    /\ group_settings[1].link_spam_enabled
    /\ Len(message_history[TheKey]) > group_settings[1].spam_limit
    /\ Len(DictGet(link_history, TheKey, <<>>)) + 1 >= group_settings[1].link_spam_limit
    /\ Cardinality(RestrictCalls(last.calls)) = 1
    /\ RecordedCount(ban_cache, TheKey) = 1

\* the ban record check_spam finds for the key, if any
VisibleRecord(c, k) ==
    IF k \in DOMAIN c /\ now < c[k].expires THEN <<c[k].value>> ELSE <<>>

\* the step is a check_spam call for the key by a user who is not exempt
\* and has no active ban, which leaves the message count within the limit
\* and whose text has no link, or one while links are not checked, or one
\* that leaves the link count below the link limit
ChecksWithinLimits(k) ==
    /\ ChecksKey(k)
    /\ ~IsExempt(last'.priv)
    /\ ~BanInForce(k)
    /\ Len(WithinInterval(DictGet(message_history, k, <<>>) \o <<now>>,
                          group_settings[1].spam_interval))
          <= group_settings[1].spam_limit
    /\ \/ ~last'.has_link
       \/ ~group_settings[1].link_spam_enabled
       \/ LinksWithinInterval < group_settings[1].link_spam_limit

\* C35: a user who is not exempt and has no active ban is not blocked by a
\* message that leaves the message count at or below spam_limit and that
\* has no link, or arrives while links are not checked, or leaves the link
\* count below the link limit; and then no ban record is created or
\* changed.
C35_WithinLimitsNothingChanges ==
    [][ChecksWithinLimits(TheKey)
       => /\ ~last'.blocked
          /\ ~Enforces
          /\ VisibleRecord(ban_cache', TheKey) = VisibleRecord(ban_cache, TheKey)]_vars

\* C35, amended: such a message is not blocked, creates no ban record and
\* leaves ban_count as it is; a record whose ban has run out is rewritten
\* as (0, ban_count), which also restarts its 24 hours.
C35_WithinLimitsCountKept ==
    [][ChecksWithinLimits(TheKey)
       => /\ ~last'.blocked
          /\ ~Enforces
          /\ VisibleRecord(ban_cache', TheKey)
               = IF HasRecord(TheKey)
                 THEN <<BanTuple(0, RecordedCount(ban_cache, TheKey))>>
                 ELSE <<>>
          /\ HasRecord(TheKey) => ban_cache'[TheKey].expires = now + BAN_CACHE_TTL]_vars

\* C35, reached: the key's first ban ended at 60; its message at 120, the
\* only one within the interval, has passed and the record reads (0, 1)
C35_PassedWithExpiredRecord ==
    /\ now = 120
    /\ last.op = "handle_message"
    /\ last.spam = "pass"
    /\ ~last.blocked
    /\ message_history[TheKey] = <<120>>
    /\ HasRecord(TheKey)
    /\ ban_cache[TheKey].value = BanTuple(0, 1)
    /\ ban_cache[TheKey].expires = now + BAN_CACHE_TTL

\* C36: match_keyword returns a (matched, score) result without raising for
\* every text and every rule with a non-empty phrase of up to 255
\* characters and any combination of mode flags, phrases as long as or
\* longer than the 200-character window of the long-text fuzzy path
\* included.
C36_MatchKeywordNeverRaises ==
    (last.op = "match_keyword" /\ keywords[1][1].phrase # <<>>) => ~last.raised

\* C36, reached: a fuzzy rule whose phrase is exactly 200 characters long,
\* applied to a text of 201 characters that does not hold it, has raised
C36_RaisedForPhraseOfWindowLength ==
    /\ last.op = "match_keyword"
    /\ Len(keywords[1][1].phrase) = SCAN_WINDOW
    /\ keywords[1][1].fuzzy_enabled
    /\ Len(last.text) = FUZZY_LONG_TEXT + 1
    /\ last.raised
    /\ ~last.matched

\* the step is handle_message called with a text that starts with "/"
HandlesSlashText ==
    /\ now' = now
    /\ last'.op = "handle_message"
    /\ <<last'.chat, last'.user>> = TheKey
    /\ StartsWith(last'.text, <<"/">>)

\* C37: a message whose text starts with "/" is never rate-limited:
\* handle_message returns before check_spam, so the message adds no
\* timestamp to any history, is not blocked, and neither triggers nor
\* escalates a ban.
C37_SlashTextBypassesLimiter ==
    [][HandlesSlashText
       => /\ last'.spam = "none"
          /\ ~last'.recorded
          /\ ~last'.blocked
          /\ ~Enforces
          /\ NothingChanges
          /\ sent' = sent]_vars

\* C37, reached: with the key's history at the limit and no ban, where any
\* other text would be one message too many, a text that starts with "/"
\* has been handled and no ban record exists
C37_SlashTextAtTheLimit ==
    /\ last.op = "handle_message"
    /\ StartsWith(last.text, <<"/">>)
    /\ TheKey \in DOMAIN message_history
    /\ Len(message_history[TheKey]) = group_settings[1].spam_limit
    /\ \A i \in 1..Len(message_history[TheKey]) : message_history[TheKey][i] = now
    /\ ~HasRecord(TheKey)

\* a Keyword row is persisted in the step
PersistsKeyword == TotalKeywords' > TotalKeywords

\* the step is get_keyword_response in state AWAITING_NEW_RESPONSE
ReceivesResponse ==
    /\ user_data.conversation = AWAITING_NEW_RESPONSE
    /\ last'.op = "get_keyword_response"
    /\ \/ keywords' # keywords
       \/ user_data' # user_data
       \/ last' # last

\* a row is persisted only by a supported response received in state
\* AWAITING_NEW_RESPONSE after a phrase was accepted, and then the
\* conversation ends
PersistedOnlyByResponse ==
    PersistsKeyword
      => /\ ReceivesResponse
         /\ last'.supported
         /\ last'.persisted
         /\ user_data.new_keyword_phrase # <<>>
         /\ keywords'[last'.chat][last'.rule].phrase = user_data.new_keyword_phrase
         /\ user_data'.conversation = CONVERSATION_END

\* /cancel ends the conversation, persists nothing and removes the two keys
CancelEndsAndCleans ==
    (last'.op = "cancel_add_keyword" /\ last' # last)
      => /\ user_data'.conversation = CONVERSATION_END
         /\ keywords' = keywords
         /\ user_data'.new_keyword_phrase = <<>>
         /\ user_data'.selected_chat_id = NoChat

\* C38: in the add-keyword conversation a Keyword row is persisted only by
\* a supported response message received in state AWAITING_NEW_RESPONSE
\* after a phrase was accepted, and then the conversation ends; a content
\* that is not supported keeps the conversation in AWAITING_NEW_RESPONSE
\* with nothing persisted; /cancel ends it with nothing persisted and the
\* pending phrase and the selected chat removed.
C38_ConversationPersistsOnce ==
    [][/\ PersistedOnlyByResponse
       /\ (ReceivesResponse /\ ~last'.supported)
            => /\ user_data'.conversation = AWAITING_NEW_RESPONSE
               /\ keywords' = keywords
       /\ CancelEndsAndCleans]_vars

\* C38, amended: a content that is not supported keeps the conversation in
\* AWAITING_NEW_RESPONSE only when the selected chat, the phrase and the
\* group's row are there; when one of them is missing get_keyword_response
\* ends the conversation, whatever the content, with nothing persisted
\* and the keys left as they are.
C38_ConversationPersistsOnceWithData ==
    [][/\ PersistedOnlyByResponse
       /\ (ReceivesResponse /\ ~last'.supported /\ ResponseDataPresent)
            => /\ user_data'.conversation = AWAITING_NEW_RESPONSE
               /\ keywords' = keywords
       /\ (ReceivesResponse /\ ~ResponseDataPresent)
            => /\ user_data'.conversation = CONVERSATION_END
               /\ keywords' = keywords
               /\ user_data'.selected_chat_id = user_data.selected_chat_id
               /\ user_data'.new_keyword_phrase = user_data.new_keyword_phrase
       /\ CancelEndsAndCleans]_vars

\* C38, reached: a phrase of blanks was accepted as the empty phrase, and
\* the sticker sent as the response has ended the conversation
C38_UnsupportedContentEnded ==
    /\ last.op = "get_keyword_response"
    /\ ~last.supported
    /\ ~last.persisted
    /\ user_data.conversation = CONVERSATION_END
    /\ user_data.new_keyword_phrase = <<>>
    /\ user_data.selected_chat_id # NoChat
    /\ TotalKeywords = 0

\* C39: the keyword saved by the add-keyword conversation belongs to the
\* group that was selected when the conversation was started, whatever
\* other callbacks (spam settings, the rule list of another group, the
\* deletion of a keyword) the user triggers between the start and the
\* response message.
C39_SavedInStartedGroup ==
    [][PersistsKeyword
       => /\ last'.op = "get_keyword_response"
          /\ last'.chat = StartedChat
          /\ Len(keywords'[StartedChat]) = Len(keywords[StartedChat]) + 1]_vars

\* C39, reached: the conversation was started for the first group, and its
\* response message has saved the first keyword of all in the second group
C39_SavedInOtherGroup ==
    /\ last.op = "get_keyword_response"
    /\ last.persisted
    /\ last.chat # StartedChat
    /\ keywords[StartedChat] = <<>>
    /\ Len(keywords[last.chat]) = 1
    /\ user_data.conversation = CONVERSATION_END

\* the three limits of every group that has a row are at least 1
LimitsPositive ==
    \A chat \in Chats :
        group_settings[chat].exists
          => /\ group_settings[chat].spam_limit >= 1
             /\ group_settings[chat].spam_interval >= 1
             /\ group_settings[chat].link_spam_limit >= 1

\* the step is a set_ request of the menu that carries a value below 1
RequestsBelowOne ==
    /\ last'.op = "spam_settings_callback"
    /\ last'.action \in {"set_spam_limit", "set_spam_interval",
                         "set_link_spam_limit"}
    /\ last'.value < 1
    /\ last' # last

\* C40: after any sequence of settings operations (set_spam_limit,
\* set_spam_interval, set_link_spam_limit, the panel's spam_inc and
\* spam_dec) a group's spam_limit, spam_interval and link_spam_limit are
\* each at least 1; a request that carries a value below 1 is rejected and
\* leaves the stored values unchanged.
C40_LimitsStayPositive ==
    /\ []LimitsPositive
    /\ [][RequestsBelowOne
          => (group_settings' = group_settings /\ ~last'.raised)]_vars

\* C40, reached: with the three limits of the first group set to 1, the
\* panel's -1 button asked for a limit of 0, and the limit is still 1
C40_DecrementAtOne ==
    /\ last.op = "panel_callback"
    /\ last.action = "panel:spam_dec"
    /\ last.value = 0
    /\ last.db = "ok"
    /\ group_settings[1].exists
    /\ group_settings[1].spam_limit = 1
    /\ group_settings[1].spam_interval = 1
    /\ group_settings[1].link_spam_limit = 1

====
